---- MODULE Spec2Model ----
(***************************************************************************)
(* Approach animation state machine of approach-visualizer.                *)
(*                                                                         *)
(* The animation store (src/src/stores/animation.ts) and the approach      *)
(* configuration store (src/src/stores/approach.ts), together with the     *)
(* two reactive watchers that couple them (the store's own watcher on      *)
(* startingDistanceNm and the header component's watcher on the settings)  *)
(* and the render loop's per-frame update (SceneManager.update); and the   *)
(* lighting of the scene: the LightingManager, its REIL system, the two    *)
(* interval timers (sequenced flashers and REIL) and the watchers of the   *)
(* runway viewer that rebuild the lighting.                                *)
(*                                                                         *)
(* Numbers.  The code computes in IEEE doubles; the model computes in      *)
(* fixed point and does not model floating-point rounding:                 *)
(*   distance   1 unit = 1/10000 nautical mile                             *)
(*   altitude   1 unit = 1/100 foot                                        *)
(*   time       1 unit = 3600 ms (deltaTime, Date.now())                   *)
(* With these units an aircraft at k knots flies k*514444*9/463000, i.e.   *)
(* 10*k distance units, per time unit.                                     *)
(***************************************************************************)
EXTENDS Integers, Sequences, FiniteSets, TLC

VARIABLES
    selectedMinimumId,   \* approach store: id of the selected minimum
    customCeiling,       \* approach store: ceiling override in feet, or Null
    customVisibility,    \* approach store: visibility override in tenths of its unit, or Null
    customVisibilityUnit,\* approach store: "SM", "RVR" or NoUnit
    lightingType,        \* approach store: the lighting-system tag
    approachSpeed,       \* approach store: knots, kept within [50, 200]
    showREIL,            \* approach store: toggle
    showRCLS,            \* approach store: toggle
    showEdgeLights,      \* approach store: toggle
    showPAPI,            \* approach store: toggle
    isPlaying,           \* animation store
    isPaused,            \* animation store
    currentDistanceNm,   \* animation store: distance from the threshold
    hasBrokenOut,        \* animation store: breakout latch
    animationStartTime,  \* animation store: Date.now() at play, or Null
    pausedTime,          \* animation store: Date.now() at pause, or Null
    testMode,            \* the page URL carries ?testMode
    now,                 \* the wall clock read by Date.now()
    lastFrameTime,       \* SceneManager: Date.now() of the previous frame, 0 before the first
    disposed,            \* the runway viewer is unmounted and its SceneManager disposed
    webGLError,          \* RunwayViewer: new SceneManager(canvas) threw, sceneManager is null
    mounted,             \* RunwayViewer: the component is mounted
    disposeCalls,        \* history: the number of calls of SceneManager.dispose()
    lightingManager,     \* LightingManager: its systems and the handle of the rabbit interval
    timers,              \* the intervals running in the browser, each with its closure
    meshes,              \* the fixture groups alive in the scene
    papiInput,           \* history: the altitude and distance the last frame handed to the PAPI
    cameraInput,         \* history: the altitude and distance the last frame's camera update read
    lastCall,            \* history: the operation called last, its argument, the mode it was called in
    landed,              \* history: updatePosition reached the landing floor, and no reset() ran since
    frameAt,             \* history: the clock at the previous frame, 0 before the first
    activeMs,            \* history: frame time the current play session spent playing and not paused
    pausedMs             \* history: frame time the current play session spent paused

configVars == <<selectedMinimumId, customCeiling, customVisibility, customVisibilityUnit,
                lightingType, approachSpeed, showREIL, showRCLS, showEdgeLights, showPAPI>>
animVars == <<isPlaying, isPaused, currentDistanceNm, hasBrokenOut, animationStartTime, pausedTime>>
sceneVars == <<now, lastFrameTime, frameAt>>
sessionVars == <<activeMs, pausedMs>>
lightVars == <<lightingManager, timers, meshes>>
viewerVars == <<disposed, webGLError, mounted, disposeCalls>>
derivedVars == <<papiInput, cameraInput>>
vars == <<selectedMinimumId, customCeiling, customVisibility, customVisibilityUnit,
          lightingType, approachSpeed, showREIL, showRCLS, showEdgeLights, showPAPI,
          isPlaying, isPaused, currentDistanceNm, hasBrokenOut, animationStartTime,
          pausedTime, testMode, now, lastFrameTime, disposed, webGLError, mounted,
          disposeCalls, lightingManager, timers,
          meshes, papiInput, cameraInput, lastCall, landed, frameAt, activeMs, pausedMs>>

\* The null of the number | null refs.
Null == -1

\* The null of customVisibilityUnit.
NoUnit == "null"

----------------------------------------------------------------------------
(* Bounds and inputs *)

\* The clock stops advancing at MaxNow.
MaxNow == 7

\* deltaTime values handed to updatePosition by a direct caller.
DeltaInputs == {0, 2}

\* Distances asked of setDistance: below the landing floor, mid-approach, beyond any start.
DistanceInputs == {0, 5000, 40000}

\* Minimum ids handed to selectMinimum.
MinimumInputs == {"cat-i", "non-precision"}

\* Ceilings handed to setCustomCeiling (Null clears the override).
CeilingInputs == {Null, 300}

\* Speeds handed to setApproachSpeed (both outside the allowed range of 50 to 200).
SpeedInputs == {30, 250}

\* Minimum ids handed to selectMinimum when the configuration alone is exercised: the whole
\* catalog, and an id the catalog does not have.
CatalogInputs == {"cat-i", "cat-ii", "cat-iiia", "cat-iiib", "non-precision", "circling",
                  "cat-iv"}

\* Visibilities handed to setCustomVisibility, in tenths of the unit (Null clears the override).
VisibilityInputs == {Null, 10}

\* Units handed to setVisibilityUnit.
UnitInputs == {"SM", "RVR"}

\* Speeds handed to setApproachSpeed when the starting distance is compared over the allowed
\* range: every tenth knot from below the range to above it.
SpeedRange == {40 + 10 * i : i \in 0..17}

\* Speeds set before a flight that is flown to the landing: the ends of the allowed range and
\* the default.
LandingSpeeds == {50, 120, 200}

\* The positive deltaTime values of the frames of such a flight.
FrameDeltas == {1, 2}

\* Altitudes, in hundredths of a foot, and distances handed to updatePAPILights: at the
\* distance of 10000 ft to the touchdown zone the altitudes give every ratio from 0.0430 to
\* 0.0620, that is every angle from below 2.5 to above 3.5 degrees; at distance 0 the
\* touchdown zone is behind the aircraft.
PapiAltitudeInputs == {100 * ratio : ratio \in 430..620}

PapiDistanceInputs == {0, 18104}

\* Lighting tags handed to setLightingType when the configuration alone is exercised: no
\* lighting, and a tag that is none of the variants.
TagInputs == {"None", "HIRL"}

\* Lighting tags handed to setLightingType: the eight variants, and a tag that is none of them.
LightingInputs == {"ALSF-II", "ALSF-I", "MALS", "MALSF", "MALSR", "SSALR", "ODALS", "None",
                   "HIRL"}

----------------------------------------------------------------------------
(* src/types/approach.ts *)

Max(a, b) == IF a >= b THEN a ELSE b
Min(a, b) == IF a <= b THEN a ELSE b

\* APPROACH_MINIMA.find(m => m.id === id)?.ceiling; Null when the id is not in the catalog.
MinimumCeiling(id) ==
    CASE id = "cat-i" -> 200
      [] id = "cat-ii" -> 100
      [] id = "cat-iiia" -> 50
      [] id = "cat-iiib" -> 50
      [] id = "non-precision" -> 400
      [] id = "circling" -> 600
      [] OTHER -> Null

\* APPROACH_MINIMA.find(m => m.id === id)?.visibility, in tenths of the unit; Null when the id
\* is not in the catalog.
MinimumVisibility(id) ==
    CASE id = "cat-i" -> 24000
      [] id = "cat-ii" -> 12000
      [] id = "cat-iiia" -> 6000
      [] id = "cat-iiib" -> 3000
      [] id = "non-precision" -> 5
      [] id = "circling" -> 20
      [] OTHER -> Null

\* APPROACH_MINIMA.find(m => m.id === id)?.visibilityUnit; NoUnit when the id is not in the
\* catalog.
MinimumVisibilityUnit(id) ==
    CASE id \in {"cat-i", "cat-ii", "cat-iiia", "cat-iiib"} -> "RVR"
      [] id \in {"non-precision", "circling"} -> "SM"
      [] OTHER -> NoUnit

\* Hundredths of a foot per nautical mile.
FEET_PER_NM == 607612

TOUCHDOWN_ZONE_DISTANCE_FT == 1000

\* Math.tan((GLIDESLOPE_ANGLE * Math.PI) / 180) * FEET_PER_NM: hundredths of a foot of
\* glidepath altitude per nautical mile (318.436 ft/nm).
TanTimesFeetPerNm == 31844

\* TOUCHDOWN_ZONE_DISTANCE_FT / FEET_PER_NM, in distance units.
TouchdownZoneOffsetNm == (TOUCHDOWN_ZONE_DISTANCE_FT * 1000000 + 303806) \div FEET_PER_NM

\* altitude / (Math.tan(angleRadians) * FEET_PER_NM): feet to distance units.
DistanceForAltitude(feet) == (feet * 1000000 + 15922) \div TanTimesFeetPerNm

\* calculateGlidepathAltitude(distanceNm): distance units to hundredths of a foot.
CalculateGlidepathAltitude(distanceToTDZ) == (distanceToTDZ * TanTimesFeetPerNm) \div 10000

\* knotsToMetersPerSecond(knots) = knots * 0.514444, in micrometres per second.
KnotsToMetersPerSecond(knots) == knots * 514444

----------------------------------------------------------------------------
(* src/stores/approach.ts *)

Cfg == [selectedMinimumId |-> selectedMinimumId,
        customCeiling |-> customCeiling,
        customVisibility |-> customVisibility,
        customVisibilityUnit |-> customVisibilityUnit,
        lightingType |-> lightingType,
        approachSpeed |-> approachSpeed,
        showREIL |-> showREIL,
        showRCLS |-> showRCLS,
        showEdgeLights |-> showEdgeLights,
        showPAPI |-> showPAPI]

\* The effective ceiling that looks at the selected minimum before the override.
EffectiveCeilingPrefersMinimum(c) ==
    IF MinimumCeiling(c.selectedMinimumId) # Null THEN MinimumCeiling(c.selectedMinimumId)
    ELSE IF c.customCeiling # Null THEN c.customCeiling
    ELSE 200

\* customCeiling.value ?? selectedMinimum.value?.ceiling ?? 200, in feet.
EffectiveCeilingOf(c) ==
    IF c.customCeiling # Null THEN c.customCeiling
    ELSE IF MinimumCeiling(c.selectedMinimumId) # Null THEN MinimumCeiling(c.selectedMinimumId)
    ELSE 200

EffectiveCeiling == EffectiveCeilingOf(Cfg)

\* customVisibility.value ?? selectedMinimum.value?.visibility ?? 2400, in tenths of the unit.
EffectiveVisibilityOf(c) ==
    IF c.customVisibility # Null THEN c.customVisibility
    ELSE IF MinimumVisibility(c.selectedMinimumId) # Null
    THEN MinimumVisibility(c.selectedMinimumId)
    ELSE 24000

EffectiveVisibility == EffectiveVisibilityOf(Cfg)

\* customVisibilityUnit.value ?? selectedMinimum.value?.visibilityUnit ?? 'RVR'
VisibilityUnitOf(c) ==
    IF c.customVisibilityUnit # NoUnit THEN c.customVisibilityUnit
    ELSE IF MinimumVisibilityUnit(c.selectedMinimumId) # NoUnit
    THEN MinimumVisibilityUnit(c.selectedMinimumId)
    ELSE "RVR"

VisibilityUnit == VisibilityUnitOf(Cfg)

\* The fields of the settings computed that the modelled setters can change (the four
\* marking toggles have no modelled setter).
SettingsOf(c) ==
    <<c.selectedMinimumId, EffectiveCeilingOf(c), EffectiveVisibilityOf(c), VisibilityUnitOf(c),
      c.lightingType, c.approachSpeed, c.showREIL, c.showRCLS, c.showEdgeLights, c.showPAPI>>

\* selectMinimum(minimumId)
SelectMinimumOf(c, minimumId) ==
    [c EXCEPT !.selectedMinimumId = minimumId,
              !.customCeiling = Null,
              !.customVisibility = Null,
              !.customVisibilityUnit = NoUnit]

\* setCustomVisibility(visibility)
SetCustomVisibilityOf(c, visibility) == [c EXCEPT !.customVisibility = visibility]

\* setVisibilityUnit(unit)
SetVisibilityUnitOf(c, unit) == [c EXCEPT !.customVisibilityUnit = unit]

\* applyLightingPreset(type): the four lighting toggles of the preset; a tag without a case
\* leaves them as they are.
ApplyLightingPreset(c, type) ==
    CASE type \in {"ALSF-II", "ALSF-I"} ->
             [c EXCEPT !.showREIL = FALSE, !.showRCLS = TRUE,
                       !.showEdgeLights = TRUE, !.showPAPI = TRUE]
      [] type = "MALSR" ->
             [c EXCEPT !.showREIL = TRUE, !.showRCLS = FALSE,
                       !.showEdgeLights = TRUE, !.showPAPI = TRUE]
      [] type \in {"SSALR", "MALS", "MALSF"} ->
             [c EXCEPT !.showREIL = TRUE, !.showRCLS = FALSE,
                       !.showEdgeLights = TRUE, !.showPAPI = TRUE]
      [] type = "ODALS" ->
             [c EXCEPT !.showREIL = FALSE, !.showRCLS = FALSE,
                       !.showEdgeLights = TRUE, !.showPAPI = FALSE]
      [] type = "None" ->
             [c EXCEPT !.showREIL = FALSE, !.showRCLS = FALSE,
                       !.showEdgeLights = FALSE, !.showPAPI = FALSE]
      [] OTHER -> c

\* setLightingType(type)
SetLightingTypeOf(c, type) == ApplyLightingPreset([c EXCEPT !.lightingType = type], type)

\* setShowREIL(show)
SetShowREILOf(c, show) == [c EXCEPT !.showREIL = show]

\* setShowPAPI(show)
SetShowPAPIOf(c, show) == [c EXCEPT !.showPAPI = show]

\* setCustomCeiling(ceiling)
SetCustomCeilingOf(c, ceiling) == [c EXCEPT !.customCeiling = ceiling]

\* setApproachSpeed(speed)
SetApproachSpeedOf(c, speed) == [c EXCEPT !.approachSpeed = Max(50, Min(200, speed))]

----------------------------------------------------------------------------
(* src/stores/animation.ts: computed values *)

\* startingDistanceNm without the three seconds of travel.
StartingDistanceWithoutTravel(c) ==
    DistanceForAltitude(EffectiveCeilingOf(c) + 50) + TouchdownZoneOffsetNm

\* startingDistanceNm, in distance units.
StartingDistanceOf(c) ==
    LET ceiling == EffectiveCeilingOf(c)
        distanceFromThresholdAtCeiling == DistanceForAltitude(ceiling) + TouchdownZoneOffsetNm
        distanceIn3Seconds == (c.approachSpeed * 50 + 3) \div 6
        calculatedStart == distanceFromThresholdAtCeiling + distanceIn3Seconds
        minDistance == DistanceForAltitude(ceiling + 50) + TouchdownZoneOffsetNm
    IN Max(calculatedStart, minDistance)

StartingDistanceNm == StartingDistanceOf(Cfg)

\* minDistanceToThreshold of updatePosition and setDistance: 10 ft on the glidepath.
MinDistanceToThreshold == DistanceForAltitude(10) + TouchdownZoneOffsetNm

\* currentAltitude that levels off under the non-precision minimum only.
CurrentAltitudeNonPrecisionOnly(c, distance) ==
    LET isNonPrecision == c.selectedMinimumId = "non-precision"
        distanceToTDZ == Max(0, distance - TouchdownZoneOffsetNm)
        calculatedAltitude == CalculateGlidepathAltitude(distanceToTDZ)
    IN IF isNonPrecision /\ calculatedAltitude < EffectiveCeilingOf(c) * 100
       THEN EffectiveCeilingOf(c) * 100
       ELSE calculatedAltitude

\* currentAltitude, in hundredths of a foot.
CurrentAltitudeOf(c, distance) ==
    LET isNonPrecision == c.selectedMinimumId = "non-precision" \/ c.selectedMinimumId = "circling"
        distanceToTDZ == Max(0, distance - TouchdownZoneOffsetNm)
        calculatedAltitude == CalculateGlidepathAltitude(distanceToTDZ)
    IN IF isNonPrecision /\ calculatedAltitude < EffectiveCeilingOf(c) * 100
       THEN EffectiveCeilingOf(c) * 100
       ELSE calculatedAltitude

CurrentAltitude == CurrentAltitudeOf(Cfg, currentDistanceNm)

\* speedNmPerMs rounded down to whole nautical miles.
SpeedNmPerMsInWholeMiles(c) == c.approachSpeed \div 3600000

\* speedNmPerMs of updatePosition: distance units per time unit.
SpeedNmPerMs(c) == (KnotsToMetersPerSecond(c.approachSpeed) * 9 + 231500) \div 463000

\* speedMultiplier of updatePosition.
SpeedMultiplier == IF testMode THEN 10 ELSE 1

----------------------------------------------------------------------------
(* src/stores/animation.ts: operations, as functions of the store's state *)

Anim == [isPlaying |-> isPlaying,
         isPaused |-> isPaused,
         currentDistanceNm |-> currentDistanceNm,
         hasBrokenOut |-> hasBrokenOut,
         animationStartTime |-> animationStartTime,
         pausedTime |-> pausedTime]

\* JavaScript truthiness of a number | null timestamp.
Truthy(t) == t # Null /\ t # 0

\* stop()
StopOf(a) ==
    [a EXCEPT !.isPlaying = FALSE, !.isPaused = FALSE,
              !.animationStartTime = Null, !.pausedTime = Null]

\* reset() that forgets to stop.
ResetWithoutStop(a, c) ==
    [a EXCEPT !.currentDistanceNm = StartingDistanceOf(c), !.hasBrokenOut = FALSE]

\* reset()
ResetOf(a, c) ==
    [StopOf(a) EXCEPT !.currentDistanceNm = StartingDistanceOf(c), !.hasBrokenOut = FALSE]

\* The shifted start time of a resume.
ResumeStartTime(a, t) ==
    IF Truthy(a.pausedTime) /\ Truthy(a.animationStartTime)
    THEN a.animationStartTime + (t - a.pausedTime)
    ELSE a.animationStartTime

\* play() that starts without the reset.
PlayWithoutReset(a, c, t) ==
    IF ~a.isPlaying
    THEN [a EXCEPT !.isPlaying = TRUE, !.isPaused = FALSE, !.animationStartTime = t]
    ELSE IF a.isPaused
    THEN [a EXCEPT !.isPaused = FALSE,
                   !.animationStartTime = ResumeStartTime(a, t),
                   !.pausedTime = Null]
    ELSE a

\* play()
PlayOf(a, c, t) ==
    IF ~a.isPlaying
    THEN [ResetOf(a, c) EXCEPT !.isPlaying = TRUE, !.isPaused = FALSE, !.animationStartTime = t]
    ELSE IF a.isPaused
    THEN [a EXCEPT !.isPaused = FALSE,
                   !.animationStartTime = ResumeStartTime(a, t),
                   !.pausedTime = Null]
    ELSE a

\* pause() without its guard.
PauseUnguarded(a, t) == [a EXCEPT !.isPaused = TRUE, !.pausedTime = t]

\* pause()
PauseOf(a, t) ==
    IF a.isPlaying /\ ~a.isPaused
    THEN [a EXCEPT !.isPaused = TRUE, !.pausedTime = t]
    ELSE a

\* distanceChange with the sign of the advance flipped.
DistanceChangeNegated(c, deltaTime) == 0 - SpeedNmPerMs(c) * deltaTime * SpeedMultiplier

\* distanceChange of updatePosition.
DistanceChange(c, deltaTime) == SpeedNmPerMs(c) * deltaTime * SpeedMultiplier

\* The breakout check with < in place of <=.
BreakoutStrict(a, c, distance) ==
    IF ~a.hasBrokenOut /\ CurrentAltitudeOf(c, distance) < EffectiveCeilingOf(c) * 100
    THEN TRUE
    ELSE a.hasBrokenOut

\* The breakout check of updatePosition, at the advanced distance.
BreakoutOf(a, c, distance) ==
    IF ~a.hasBrokenOut /\ CurrentAltitudeOf(c, distance) <= EffectiveCeilingOf(c) * 100
    THEN TRUE
    ELSE a.hasBrokenOut

\* The landing check with < in place of <=.
LandingStrict(a) ==
    IF a.currentDistanceNm < MinDistanceToThreshold
    THEN StopOf([a EXCEPT !.currentDistanceNm = MinDistanceToThreshold])
    ELSE a

\* The landing check of updatePosition.
LandingOf(a) ==
    IF a.currentDistanceNm <= MinDistanceToThreshold
    THEN StopOf([a EXCEPT !.currentDistanceNm = MinDistanceToThreshold])
    ELSE a

\* updatePosition that does not look at isPaused.
UpdatePositionWhilePaused(a, c, deltaTime) ==
    IF ~a.isPlaying THEN a
    ELSE LET advanced == Max(0, a.currentDistanceNm - DistanceChange(c, deltaTime))
         IN LandingOf([a EXCEPT !.currentDistanceNm = advanced,
                                !.hasBrokenOut = BreakoutOf(a, c, advanced)])

\* updatePosition(deltaTime)
UpdatePositionOf(a, c, deltaTime) ==
    IF ~a.isPlaying \/ a.isPaused THEN a
    ELSE LET advanced == Max(0, a.currentDistanceNm - DistanceChange(c, deltaTime))
         IN LandingOf([a EXCEPT !.currentDistanceNm = advanced,
                                !.hasBrokenOut = BreakoutOf(a, c, advanced)])

\* The clamp without its lower end.
ClampDistanceAbove(c, distance) == Min(StartingDistanceOf(c), distance)

\* The clamp of setDistance.
ClampDistance(c, distance) ==
    Max(MinDistanceToThreshold, Min(StartingDistanceOf(c), distance))

\* setDistance that recomputes the breakout flag from the new altitude.
SetDistanceRecomputesLatch(a, c, distance) ==
    LET stopped == IF a.isPlaying /\ ~a.isPaused THEN StopOf(a) ELSE a
        clamped == ClampDistance(c, distance)
    IN [stopped EXCEPT !.currentDistanceNm = clamped,
                       !.hasBrokenOut = CurrentAltitudeOf(c, clamped) <= EffectiveCeilingOf(c) * 100]

\* setDistance(distance)
SetDistanceOf(a, c, distance) ==
    LET stopped == IF a.isPlaying /\ ~a.isPaused THEN StopOf(a) ELSE a
    IN [stopped EXCEPT !.currentDistanceNm = ClampDistance(c, distance)]

\* watch(startingDistanceNm, ...): runs when the computed value changes.
WatchStartingDistance(a, newValue) ==
    IF ~a.isPlaying THEN [a EXCEPT !.currentDistanceNm = newValue] ELSE a

----------------------------------------------------------------------------
(* src/components/AppHeader.vue *)

\* watch(() => approachStore.settings, ...): runs when the settings change.
WatchSettings(a, c, t) ==
    IF a.isPlaying /\ ~a.isPaused THEN PlayOf(ResetOf(a, c), c, t) ELSE a

----------------------------------------------------------------------------
(* src/scene/lighting: the lighting systems and their layouts *)

\* The tags ApproachLightingFactory.create builds a system for; 'None' and any other tag
\* give null.
FactoryTypes == {"ALSF-II", "ALSF-I", "MALS", "MALSF", "MALSR", "SSALR", "ODALS"}

\* The stations, in feet before the threshold, of the sequenced flashers of each system, in
\* the order create() pushes them onto sequencedFlashers.
ALSFIIStations == [i \in 1..15 |-> 1000 + 100 * (i - 1)]

ALSFIStations == [i \in 1..21 |-> 1000 + 100 * (i - 1)]

SSALRStations == [i \in 1..5 |-> 1600 + 200 * (i - 1)]

\* Five on the extended centerline, then the two beside the threshold.
ODALSStations == [i \in 1..7 |-> IF i <= 5 THEN 300 * i ELSE 0]

\* The MALS family: MALSFSystem.create and MALSRSystem.create.
MALSFStations == <<1000, 1200, 1400>>

MALSRStations == [i \in 1..5 |-> 1600 + 200 * (i - 1)]

FlasherStations(type) ==
    CASE type = "ALSF-II" -> ALSFIIStations
      [] type = "ALSF-I" -> ALSFIStations
      [] type = "SSALR" -> SSALRStations
      [] type = "ODALS" -> ODALSStations
      [] type = "MALSF" -> MALSFStations
      [] type = "MALSR" -> MALSRStations
      [] OTHER -> <<>>

\* getSequencedFlashers().length
FlasherCount(type) == Len(FlasherStations(type))

\* getConfig().hasSequencedFlashers
HasSequencedFlashers(type) == type \in {"ALSF-II", "ALSF-I", "MALSF", "MALSR", "SSALR", "ODALS"}

----------------------------------------------------------------------------
(* src/scene/lighting/ApproachLightingSystem.ts, systems/*.ts, utils/SafeMeshBuilder.ts:
   the fixtures of each system *)

\* Lateral positions are in half inches, stations in feet from the threshold (negative before
\* it, as z is), heights in metres as the code writes them.
HalfInchesPerFoot == 24

RUNWAY_WIDTH_FT == 150

\* createLight(name, new Vector3(x, y, z), material): the fixture's position and colour.
Light(x, y, z, material) == [x |-> x, y |-> y, z |-> z, material |-> material]

\* A system as constructed: approachLights = [], sequencedFlashers = [] (and the runwayLights
\* = [] of ALSFIISystem).
NewSystem == [approachLights |-> <<>>, sequencedFlashers |-> <<>>, runwayLights |-> <<>>]

\* approachLights.push(light) for each of the lights.
PushLights(sys, lights) == [sys EXCEPT !.approachLights = @ \o lights]

\* createSequencedFlasher(name, position) for each station: a strobe on the extended
\* centerline, pushed onto both lists.
PushSequencedFlashers(sys, stations) ==
    LET flashers == [k \in DOMAIN stations |-> Light(0, 3, -stations[k], "strobe")]
    IN [sys EXCEPT !.sequencedFlashers = @ \o flashers, !.approachLights = @ \o flashers]

\* for (i = -2; i <= 2; i++): five white lights centred on the centerline.
Barrette(ft, spacing) == [k \in 1..5 |-> Light((k - 3) * spacing, 2, -ft, "white")]

\* for (ft = first; ft <= last; ft += step): the barrette of every station, in order.
Barrettes(first, last, step, spacing) ==
    [k \in 1..(5 * ((last - first) \div step + 1)) |->
        Light((((k - 1) % 5) - 2) * spacing, 2, -(first + step * ((k - 1) \div 5)), "white")]

\* for (side = -1; side <= 1; side += 2) for (i = 0; i < count; i++):
\* x = side * (first + i * step).
SideBars(ft, count, first, step, y, material) ==
    [k \in 1..(2 * count) |->
        LET side == IF k <= count THEN -1 ELSE 1
            i == (k - 1) % count
        IN Light(side * (first + i * step), y, ft, material)]

\* The same two loops inside a loop over n stations, the j-th at z = j * zStep.
SideBarsEvery(n, zStep, count, first, step, y, material) ==
    [k \in 1..(2 * count * n) |->
        SideBars(zStep * ((k - 1) \div (2 * count) + 1), count, first, step, y, material)
            [((k - 1) % (2 * count)) + 1]]

\* createThresholdBar(extensionFt = 45): green lights on 5 ft centres over the runway width
\* and the extension on each side, i = 0..floor(width / spacing) inclusive.
ThresholdBar(extensionFt) ==
    LET thresholdBarWidth == (RUNWAY_WIDTH_FT + extensionFt * 2) * HalfInchesPerFoot
        thresholdLightSpacing == 5 * HalfInchesPerFoot
        numThresholdLights == thresholdBarWidth \div thresholdLightSpacing
    IN [k \in 1..(numThresholdLights + 1) |->
           Light((k - 1) * thresholdLightSpacing - thresholdBarWidth \div 2, 1, 0, "green")]

\* createSSALRThresholdBar(), createMALSThresholdBar(): green lights on 10 ft centres over the
\* runway width.
ThresholdBar10Ft ==
    LET thresholdSpacing == 10 * HalfInchesPerFoot
        width == RUNWAY_WIDTH_FT * HalfInchesPerFoot
        numThresholdLights == width \div thresholdSpacing
    IN [k \in 1..(numThresholdLights + 1) |->
           Light((k - 1) * thresholdSpacing - width \div 2, 1, 0, "green")]

\* ALSFISystem.create1000FootCrossbar: the 5-light centre barrette at 40.5 in and, on each
\* side, 8 lights from 22.5 ft at 5 ft.
ALSFI1000FootCrossbar == Barrette(1000, 81) \o SideBars(-1000, 8, 540, 120, 2, "white")

\* createCenterlineBarrettes() that adds the crossbar to the barrette of the station.
ALSFICenterlineBarrettesWithBoth ==
    Barrettes(100, 1000, 100, 81) \o ALSFI1000FootCrossbar \o Barrettes(1100, 3000, 100, 81)

\* ALSFISystem.createCenterlineBarrettes: every 100 ft from 100 to 3000 ft, the crossbar in
\* place of the barrette at 1000 ft.
ALSFICenterlineBarrettes ==
    Barrettes(100, 900, 100, 81) \o ALSFI1000FootCrossbar \o Barrettes(1100, 3000, 100, 81)

\* ALSFISystem.createPreThresholdBar: red, at 100 ft, 5 lights a side from 75 ft at 3.5 ft.
ALSFIPreThresholdBar == SideBars(-100, 5, 1800, 84, 2, "red")

\* ALSFISystem.createTerminatingBar: red, at 200 ft, 3 lights a side from 15 ft at 5 ft.
ALSFITerminatingBar == SideBars(-200, 3, 360, 120, 2, "red")

\* ALSFISystem.create()
ALSFICreate(sys) ==
    PushSequencedFlashers(
        PushLights(sys, ALSFICenterlineBarrettes \o ALSFIPreThresholdBar
                            \o ALSFITerminatingBar \o ThresholdBar(45)),
        ALSFIStations)

\* ALSFIISystem.create1000FootBar: the centre barrette at 3 ft and 8 lights a side from 20 ft.
ALSFII1000FootBar == Barrette(1000, 72) \o SideBars(-1000, 8, 480, 120, 2, "white")

\* ALSFIISystem.createCenterlineBars: every 100 ft from 100 to 2400 ft at 3.5 ft spacing.
ALSFIICenterlineBars ==
    Barrettes(100, 900, 100, 84) \o ALSFII1000FootBar \o Barrettes(1100, 2400, 100, 84)

\* ALSFIISystem.create500FootBar: 4 lights a side from 15 ft at 5 ft.
ALSFII500FootBar == SideBars(-500, 4, 360, 120, 2, "white")

\* ALSFIISystem.createRedSideBars: at 100 to 900 ft, 3 red lights a side at 40, 45, 50 ft.
ALSFIIRedSideBars == SideBarsEvery(9, -100, 3, 960, 120, 2, "red")

\* ALSFIISystem.createTouchdownZoneLights: on the runway, pushed onto runwayLights.
ALSFIITouchdownZoneLights == SideBarsEvery(10, 100, 3, 960, 120, 1, "white")

\* ALSFIISystem.create()
ALSFIICreate(sys) ==
    LET bars == PushLights(sys, ALSFIICenterlineBars \o ALSFII500FootBar
                                    \o ALSFIIRedSideBars \o ThresholdBar(45))
        tdz == [bars EXCEPT !.runwayLights = @ \o ALSFIITouchdownZoneLights]
    IN PushSequencedFlashers(tdz, ALSFIIStations)

\* SSALRSystem.create(): bars every 200 ft from 200 to 1400 ft at 40.5 in, at 1000 ft with 5
\* lights a side from 15 ft at 5 ft; the threshold bar; the RAIL flashers.
SSALRCreate(sys) ==
    LET bars == Barrettes(200, 800, 200, 81)
                    \o Barrette(1000, 81) \o SideBars(-1000, 5, 360, 120, 2, "white")
                    \o Barrettes(1200, 1400, 200, 81)
    IN PushSequencedFlashers(PushLights(sys, bars \o ThresholdBar10Ft), SSALRStations)

\* MALSSystem.createMALSBase(): bars every 200 ft from 200 to 1400 ft at 2.5 ft, at 1000 ft
\* with 5 lights a side from 13 ft at 2.5 ft; the threshold bar.
MALSCreate(sys) ==
    LET bars == Barrettes(200, 800, 200, 60)
                    \o Barrette(1000, 60) \o SideBars(-1000, 5, 312, 60, 2, "white")
                    \o Barrettes(1200, 1400, 200, 60)
    IN PushLights(sys, bars \o ThresholdBar10Ft)

\* ODALSSystem.create(): five strobes on the extended centerline, then one on each side of
\* the threshold, 40 ft from the runway edge, or 75 ft with a PAPI.
ODALSCreate(sys, withPAPI) ==
    LET lateralDistance == (IF withPAPI THEN 75 ELSE 40) * HalfInchesPerFoot
        runwayWidth == RUNWAY_WIDTH_FT * HalfInchesPerFoot
        odals == [k \in 1..7 |->
                     IF k <= 5 THEN Light(0, 3, -ODALSStations[k], "strobe")
                     ELSE Light((IF k = 6 THEN -1 ELSE 1) * (runwayWidth \div 2 + lateralDistance),
                                3, 0, "strobe")]
    IN [sys EXCEPT !.sequencedFlashers = @ \o odals, !.approachLights = @ \o odals]

\* create() of the system the factory builds for the type, on the system's lists.
SystemCreate(sys, type, withPAPI) ==
    CASE type = "ALSF-II" -> ALSFIICreate(sys)
      [] type = "ALSF-I" -> ALSFICreate(sys)
      [] type = "MALS" -> MALSCreate(sys)
      [] type = "MALSF" -> PushSequencedFlashers(MALSCreate(sys), MALSFStations)
      [] type = "MALSR" -> PushSequencedFlashers(MALSCreate(sys), MALSRStations)
      [] type = "SSALR" -> SSALRCreate(sys)
      [] type = "ODALS" -> ODALSCreate(sys, withPAPI)
      [] OTHER -> sys

\* new XSystem(scene, glowLayer[, showPAPI]) followed by create(), for every type the factory
\* builds and both values of the toggle.
CreatedSystems ==
    [type \in FactoryTypes, withPAPI \in BOOLEAN |-> SystemCreate(NewSystem, type, withPAPI)]

\* The system of the type, constructed and created.
CreatedSystem(type, withPAPI) ==
    IF type \in FactoryTypes THEN CreatedSystems[type, withPAPI] ELSE NewSystem

----------------------------------------------------------------------------
(* src/scene/lighting/LightingManager.ts: the systems a LightingManager holds *)

\* The kinds of fixture group, one per lighting system class.
MeshKinds == {"approach", "papi", "reil", "rcls", "edge"}

Mesh(kind, inst) == [kind |-> kind, inst |-> inst]

\* approachLightingSystem = null
NoApproachSystem ==
    [inst |-> 0, type |-> "None", visible |-> {}, approachLights |-> <<>>,
     sequencedFlashers |-> <<>>, runwayLights |-> <<>>]

\* papiSystem = null
NoPapiSystem == [inst |-> 0, redCount |-> 0, materials |-> <<>>]

\* reilSystem = null
NoReilSystem == [inst |-> 0, visible |-> TRUE, reilFlashInterval |-> Null]

\* The lighting of the scene: the LightingManager's fields, the browser's running intervals
\* and the scene's live fixture groups.
Lights == [lm |-> lightingManager, timers |-> timers, meshes |-> meshes]

\* A fresh object identity for a system of the kind: the least one that no live fixture group
\* and no running interval refers to.
NewInst(l, kind) ==
    LET used == {m.inst : m \in {x \in l.meshes : x.kind = kind}}
                    \cup {t.target.inst : t \in {x \in l.timers : x.target.kind = kind}}
    IN CHOOSE i \in 1..(Cardinality(used) + 1) :
           i \notin used /\ \A j \in 1..(i - 1) : j \in used

\* The handle setInterval returns: the least one not in use.
NewHandle(l) ==
    LET used == {t.handle : t \in l.timers}
    IN CHOOSE h \in 1..(Cardinality(used) + 1) :
           h \notin used /\ \A g \in 1..(h - 1) : g \in used

\* clearInterval(handle)
ClearInterval(l, handle) == [l EXCEPT !.timers = {t \in @ : t.handle # handle}]

\* mesh.dispose() of every fixture of the system.
DisposeMeshes(l, kind, inst) == [l EXCEPT !.meshes = @ \ {Mesh(kind, inst)}]

\* The creation of the fixtures of a new system of the kind.
CreateMeshes(l, kind, inst) == [l EXCEPT !.meshes = @ \cup {Mesh(kind, inst)}]

----------------------------------------------------------------------------
(* src/scene/lighting/REILSystem.ts *)

\* stopFlashing() that leaves the interval running.
StopFlashingKeepsInterval(l) ==
    IF l.lm.reilSystem.inst = 0 THEN l
    ELSE [l EXCEPT !.lm.reilSystem.reilFlashInterval = Null, !.lm.reilSystem.visible = TRUE]

\* stopFlashing()
StopFlashing(l) ==
    IF l.lm.reilSystem.inst = 0 THEN l
    ELSE LET handle == l.lm.reilSystem.reilFlashInterval
             cleared == IF Truthy(handle) THEN ClearInterval(l, handle) ELSE l
         IN [cleared EXCEPT !.lm.reilSystem.reilFlashInterval = Null,
                            !.lm.reilSystem.visible = TRUE]

\* The REIL interval, every 250 ms, with its closure's visible flag.
ReilTimer(handle, inst) ==
    [handle |-> handle, kind |-> "reil", target |-> Mesh("reil", inst),
     currentIndex |-> 0, flashers |-> 0, visible |-> TRUE, period |-> 250]

\* startFlashing()
StartFlashing(l) ==
    LET stopped == StopFlashing(l)
        handle == NewHandle(stopped)
    IN [stopped EXCEPT !.timers = @ \cup {ReilTimer(handle, stopped.lm.reilSystem.inst)},
                       !.lm.reilSystem.reilFlashInterval = handle]

\* new REILSystem(scene, glowLayer); create()
CreateReil(l) ==
    LET inst == NewInst(l, "reil")
    IN [CreateMeshes(l, "reil", inst) EXCEPT
            !.lm.reilSystem = [inst |-> inst, visible |-> TRUE, reilFlashInterval |-> Null]]

\* dispose()
DisposeReil(l) ==
    LET stopped == StopFlashing(l)
    IN DisposeMeshes(stopped, "reil", stopped.lm.reilSystem.inst)

\* One run of the REIL interval's callback. The callback reaches the lights through the
\* system it was started on; a disposed system has none left.
ReilTickOf(l, t) ==
    LET ticked == [l EXCEPT !.timers = (@ \ {t}) \cup {[t EXCEPT !.visible = ~t.visible]}]
    IN IF l.lm.reilSystem.inst = t.target.inst /\ Mesh("reil", t.target.inst) \in l.meshes
       THEN [ticked EXCEPT !.lm.reilSystem.visible = t.visible]
       ELSE ticked

----------------------------------------------------------------------------
(* src/scene/lighting/PAPISystem.ts *)

\* angleDegrees = atan(currentAltitude / distanceFt) * 180 / PI, in hundredths of a degree,
\* for the ratio in ten-thousandths: atan(x) = x - x^3 / 3 up to 0.1, and past 0.1 an angle
\* above every PAPI angle.
AngleDegrees(ratio) ==
    IF ratio >= 1000 THEN 571
    ELSE (57296 * ratio - (((ratio * ratio * ratio) \div 30000) * 57296) \div 10000) \div 100000

\* The number of red lights for the angle, in hundredths of a degree.
RedCountForAngle(angleDegrees) ==
    IF angleDegrees >= 350 THEN 0
    ELSE IF angleDegrees >= 325 THEN 1
    ELSE IF angleDegrees >= 275 THEN 2
    ELSE IF angleDegrees >= 250 THEN 3
    ELSE 4

\* The number of red lights for the ratio currentAltitude / distanceFt in ten-thousandths.
RedCountFor(ratio) == RedCountForAngle(AngleDegrees(ratio))

\* The materials with the red lights at the far end of the four slots.
PapiMaterialsFromFarEnd(redCount) ==
    [i \in 1..4 |-> IF 4 - i < redCount THEN "red" ELSE "white"]

\* papiLights[i].material = i < redCount ? papiRedMat : papiWhiteMat, for the four slots.
PapiMaterials(redCount) ==
    [i \in 1..4 |-> IF i - 1 < redCount THEN "red" ELSE "white"]

\* distanceFt of update(), in hundredths of a foot.
PapiDistanceFt(distance) ==
    (Max(0, distance - TouchdownZoneOffsetNm) * (FEET_PER_NM \div 100)) \div 100

\* update(currentAltitude, currentDistanceNm)
PapiUpdate(papi, altitude, distance) ==
    LET distanceFt == PapiDistanceFt(distance)
        redCount == RedCountFor((altitude * 10000) \div distanceFt)
    IN IF papi.inst = 0 \/ distanceFt <= 0 THEN papi
       ELSE [papi EXCEPT !.redCount = redCount, !.materials = PapiMaterials(redCount)]

----------------------------------------------------------------------------
(* src/scene/lighting/ApproachLightingFactory.ts, LightingManager.ts *)

\* A factory that builds a system for whatever tag it is handed.
FactoryCreateUnchecked(type) == IF type = "None" THEN "None" ELSE type

\* ApproachLightingFactory.create(type, ...): the type of the system built, "None" for null.
FactoryCreate(type) == IF type \in FactoryTypes THEN type ELSE "None"

\* stopRabbitSequence() that forgets the handle without clearing the interval.
StopRabbitSequenceKeepsInterval(l) == [l EXCEPT !.lm.rabbitInterval = Null]

\* stopRabbitSequence()
StopRabbitSequence(l) ==
    IF Truthy(l.lm.rabbitInterval)
    THEN [ClearInterval(l, l.lm.rabbitInterval) EXCEPT !.lm.rabbitInterval = Null]
    ELSE l

\* timePerLight = Math.floor(sequenceTime / Math.max(1, sequencedFlashers.length)), in ms.
TimePerLight(flashers) == 500 \div Max(1, flashers)

\* The rabbit interval with its closure: the flasher list it was started on and currentIndex.
RabbitTimer(handle, inst, flashers) ==
    [handle |-> handle, kind |-> "rabbit", target |-> Mesh("approach", inst),
     currentIndex |-> flashers - 1, flashers |-> flashers, visible |-> FALSE,
     period |-> TimePerLight(flashers)]

\* startRabbitSequence()
StartRabbitSequence(l) ==
    LET cleared == IF Truthy(l.lm.rabbitInterval)
                   THEN [ClearInterval(l, l.lm.rabbitInterval) EXCEPT !.lm.rabbitInterval = Null]
                   ELSE l
        system == cleared.lm.approachLightingSystem
        flashers == FlasherCount(system.type)
        handle == NewHandle(cleared)
    IN IF system.inst = 0 \/ flashers = 0 THEN cleared
       ELSE [cleared EXCEPT !.timers = @ \cup {RabbitTimer(handle, system.inst, flashers)},
                            !.lm.rabbitInterval = handle]

\* currentIndex--, wrapping below 0 to the last index.
NextIndex(currentIndex, flashers) ==
    IF currentIndex - 1 < 0 THEN flashers - 1 ELSE currentIndex - 1

\* The rabbit callback that runs only while the animation is not paused.
RabbitTickUnlessPaused(l, t) ==
    IF isPaused THEN l
    ELSE LET ticked == [l EXCEPT !.timers = (@ \ {t}) \cup
                            {[t EXCEPT !.currentIndex = NextIndex(t.currentIndex, t.flashers)]}]
         IN [ticked EXCEPT !.lm.approachLightingSystem.visible = {t.currentIndex}]

\* One run of the rabbit interval's callback, on the flasher list it was started on.
RabbitTickOf(l, t) ==
    LET shown == IF t.currentIndex >= 0 /\ t.currentIndex < t.flashers
                 THEN {t.currentIndex} ELSE {}
        ticked == [l EXCEPT !.timers = (@ \ {t}) \cup
                       {[t EXCEPT !.currentIndex = NextIndex(t.currentIndex, t.flashers)]}]
    IN IF l.lm.approachLightingSystem.inst = t.target.inst
              /\ Mesh("approach", t.target.inst) \in l.meshes
       THEN [ticked EXCEPT !.lm.approachLightingSystem.visible = shown]
       ELSE ticked

\* approachLightingSystem.dispose(); approachLightingSystem = null
DisposeApproach(l) ==
    IF l.lm.approachLightingSystem.inst = 0 THEN l
    ELSE [DisposeMeshes(l, "approach", l.lm.approachLightingSystem.inst) EXCEPT
              !.lm.approachLightingSystem = NoApproachSystem]

\* papiSystem.dispose(); papiSystem = null
DisposePapi(l) ==
    IF l.lm.papiSystem.inst = 0 THEN l
    ELSE [DisposeMeshes(l, "papi", l.lm.papiSystem.inst) EXCEPT !.lm.papiSystem = NoPapiSystem]

\* The REIL system dropped without its dispose().
DropReilSystem(l) == [l EXCEPT !.lm.reilSystem = NoReilSystem]

\* reilSystem.dispose(); reilSystem = null
DisposeReilSystem(l) ==
    IF l.lm.reilSystem.inst = 0 THEN l
    ELSE [DisposeReil(l) EXCEPT !.lm.reilSystem = NoReilSystem]

\* rclsSystem.dispose(); rclsSystem = null
DisposeRcls(l) ==
    IF l.lm.rclsSystem = 0 THEN l
    ELSE [DisposeMeshes(l, "rcls", l.lm.rclsSystem) EXCEPT !.lm.rclsSystem = 0]

\* runwayEdgeLighting.dispose(); runwayEdgeLighting = null
DisposeEdge(l) ==
    IF l.lm.runwayEdgeLighting = 0 THEN l
    ELSE [DisposeMeshes(l, "edge", l.lm.runwayEdgeLighting) EXCEPT !.lm.runwayEdgeLighting = 0]

\* clearAllLights()
ClearAllLights(l) ==
    DisposeEdge(DisposeRcls(DisposeReilSystem(DisposePapi(DisposeApproach(
        StopRabbitSequence(l))))))

\* The approachLightingSystem field for a system of the type after its create().
ApproachSystem(inst, type, system) ==
    [inst |-> inst, type |-> type, visible |-> 0..(FlasherCount(type) - 1),
     approachLights |-> system.approachLights,
     sequencedFlashers |-> system.sequencedFlashers,
     runwayLights |-> system.runwayLights]

\* this.approachLightingSystem = ApproachLightingFactory.create(...); .create()
CreatedApproach(l, built, withPAPI) ==
    [CreateMeshes(l, "approach", NewInst(l, "approach")) EXCEPT
        !.lm.approachLightingSystem =
            ApproachSystem(NewInst(l, "approach"), built, CreatedSystem(built, withPAPI))]

\* if (this.approachLightingSystem.hasSequencedFlashers()) this.startRabbitSequence()
StartRabbitIfSequenced(l, built) ==
    IF HasSequencedFlashers(built) THEN StartRabbitSequence(l) ELSE l

\* The approach system of updateLighting: the factory's system, created, and its rabbit.
CreateApproach(l, type, withPAPI) ==
    LET built == FactoryCreate(type)
    IN IF type = "None" \/ built = "None" THEN l
       ELSE StartRabbitIfSequenced(CreatedApproach(l, built, withPAPI), built)

\* new RunwayEdgeLighting(...); create(lightingType)
CreateEdge(l) ==
    LET inst == NewInst(l, "edge")
    IN [CreateMeshes(l, "edge", inst) EXCEPT !.lm.runwayEdgeLighting = inst]

\* new PAPISystem(...); create(): two red, two white.
CreatePapi(l) ==
    LET inst == NewInst(l, "papi")
    IN [CreateMeshes(l, "papi", inst) EXCEPT !.lm.papiSystem =
                                       [inst |-> inst, redCount |-> 2, materials |-> PapiMaterials(2)]]

\* new RCLSSystem(...); create()
CreateRcls(l) ==
    LET inst == NewInst(l, "rcls")
    IN [CreateMeshes(l, "rcls", inst) EXCEPT !.lm.rclsSystem = inst]

\* if (config.showEdgeLights) { new RunwayEdgeLighting(...); create(...) }
EdgeIfShown(l, c) == IF c.showEdgeLights THEN CreateEdge(l) ELSE l

\* if (config.showPAPI) { new PAPISystem(...); create() }
PapiIfShown(l, c) == IF c.showPAPI THEN CreatePapi(l) ELSE l

\* if (config.showREIL) { new REILSystem(...); create(); startFlashing() }
ReilIfShown(l, c) == IF c.showREIL THEN StartFlashing(CreateReil(l)) ELSE l

\* if (config.showRCLS) { new RCLSSystem(...); create() }
RclsIfShown(l, c) == IF c.showRCLS THEN CreateRcls(l) ELSE l

\* updateLighting(config) that keeps an approach system of the wanted type and calls its
\* create() again.
UpdateLightingReusingSystem(l, c) ==
    LET old == l.lm.approachLightingSystem
        cleared == ClearAllLights(l)
        approach == CreateApproach(cleared, c.lightingType, c.showPAPI)
        again == SystemCreate([approachLights |-> old.approachLights,
                               sequencedFlashers |-> old.sequencedFlashers,
                               runwayLights |-> old.runwayLights],
                              old.type, c.showPAPI)
        reused == IF old.inst # 0 /\ old.type = approach.lm.approachLightingSystem.type
                  THEN [approach EXCEPT
                            !.lm.approachLightingSystem.approachLights = again.approachLights,
                            !.lm.approachLightingSystem.sequencedFlashers =
                                again.sequencedFlashers,
                            !.lm.approachLightingSystem.runwayLights = again.runwayLights]
                  ELSE approach
        edge == IF c.showEdgeLights THEN CreateEdge(reused) ELSE reused
        papi == IF c.showPAPI THEN CreatePapi(edge) ELSE edge
        reil == IF c.showREIL THEN StartFlashing(CreateReil(papi)) ELSE papi
    IN IF c.showRCLS THEN CreateRcls(reil) ELSE reil

\* updateLighting(config)
UpdateLighting(l, c) ==
    RclsIfShown(ReilIfShown(PapiIfShown(EdgeIfShown(
        CreateApproach(ClearAllLights(l), c.lightingType, c.showPAPI), c), c), c), c)

\* updatePAPILights(currentAltitude, currentDistanceNm)
UpdatePAPILights(l, altitude, distance) ==
    [l EXCEPT !.lm.papiSystem = PapiUpdate(@, altitude, distance)]

\* The LightingManager as constructed.
NoLights ==
    [lm |-> [approachLightingSystem |-> NoApproachSystem,
             papiSystem |-> NoPapiSystem,
             reilSystem |-> NoReilSystem,
             rclsSystem |-> 0,
             runwayEdgeLighting |-> 0,
             rabbitInterval |-> Null],
     timers |-> {},
     meshes |-> {}]

----------------------------------------------------------------------------
(* src/components/RunwayViewer.vue, src/scene/SceneManager.ts *)

\* updateSettings(): the lighting is rebuilt for the configuration.
UpdateSettingsOf(l, c) == UpdateLighting(l, c)

\* The viewer's two watchers, after a handler that leaves the configuration c: the one on the
\* settings, and the one on currentDistanceNm, which acts while the animation is not playing.
\* Both call updateSettings(); a disposed viewer has no watchers.
ViewerWatchers(l, c, settingsChanged) ==
    IF mounted /\ ~webGLError /\ ~disposed
           /\ (settingsChanged \/ (currentDistanceNm' # currentDistanceNm /\ ~isPlaying'))
    THEN UpdateSettingsOf(l, c)
    ELSE l

\* resetCameraPosition(), which the frame runs last while the animation is not playing and the
\* aircraft is within 0.01 nm of the starting distance: the camera is placed at the starting
\* distance, at the current altitude.
ResetCameraPosition(a, c, camera) ==
    LET offset == a.currentDistanceNm - StartingDistanceOf(c)
    IN IF ~a.isPlaying /\ offset < 100 /\ 0 - offset < 100
       THEN [altitude |-> CurrentAltitudeOf(c, a.currentDistanceNm),
             distance |-> StartingDistanceOf(c)]
       ELSE camera

\* The frame derives camera and PAPI from the store as it was before updatePosition.
FrameDerivationStale(before, after) == before

\* updateCameraPosition() and updatePAPILights() read the store after updatePosition().
FrameDerivationState(before, after) == after

----------------------------------------------------------------------------
(* State machine *)

\* "stopped", "playing" or "paused".
ModeOf(a) == IF ~a.isPlaying THEN "stopped" ELSE IF a.isPaused THEN "paused" ELSE "playing"

Call(op, arg) == [op |-> op, arg |-> arg, from |-> ModeOf(Anim)]

SetAnim(a) ==
    /\ isPlaying' = a.isPlaying
    /\ isPaused' = a.isPaused
    /\ currentDistanceNm' = a.currentDistanceNm
    /\ hasBrokenOut' = a.hasBrokenOut
    /\ animationStartTime' = a.animationStartTime
    /\ pausedTime' = a.pausedTime

SetCfg(c) ==
    /\ selectedMinimumId' = c.selectedMinimumId
    /\ customCeiling' = c.customCeiling
    /\ customVisibility' = c.customVisibility
    /\ customVisibilityUnit' = c.customVisibilityUnit
    /\ lightingType' = c.lightingType
    /\ approachSpeed' = c.approachSpeed
    /\ showREIL' = c.showREIL
    /\ showRCLS' = c.showRCLS
    /\ showEdgeLights' = c.showEdgeLights
    /\ showPAPI' = c.showPAPI

SetLights(l) ==
    /\ lightingManager' = l.lm
    /\ timers' = l.timers
    /\ meshes' = l.meshes

\* The session's frame times start from 0 with every play session and are 0 outside one.
SetSession(restarted, active, paused) ==
    /\ activeMs' = IF restarted \/ ~isPlaying' THEN 0 ELSE active
    /\ pausedMs' = IF restarted \/ ~isPlaying' THEN 0 ELSE paused

\* The approach store as constructed, with the preset of its lighting type applied.
InitCfg ==
    ApplyLightingPreset([selectedMinimumId |-> "cat-i",
                         customCeiling |-> Null,
                         customVisibility |-> Null,
                         customVisibilityUnit |-> NoUnit,
                         lightingType |-> "ALSF-II",
                         approachSpeed |-> 120,
                         showREIL |-> TRUE,
                         showRCLS |-> TRUE,
                         showEdgeLights |-> TRUE,
                         showPAPI |-> TRUE],
                        "ALSF-II")

NoDerivation == [altitude |-> Null, distance |-> Null]

\* The stores as constructed: the default configuration, and the immediate run of the
\* startingDistanceNm watcher.
InitStores ==
    /\ selectedMinimumId = InitCfg.selectedMinimumId
    /\ customCeiling = InitCfg.customCeiling
    /\ customVisibility = InitCfg.customVisibility
    /\ customVisibilityUnit = InitCfg.customVisibilityUnit
    /\ lightingType = InitCfg.lightingType
    /\ approachSpeed = InitCfg.approachSpeed
    /\ showREIL = InitCfg.showREIL
    /\ showRCLS = InitCfg.showRCLS
    /\ showEdgeLights = InitCfg.showEdgeLights
    /\ showPAPI = InitCfg.showPAPI
    /\ isPlaying = FALSE
    /\ isPaused = FALSE
    /\ currentDistanceNm = StartingDistanceOf(InitCfg)
    /\ hasBrokenOut = FALSE
    /\ animationStartTime = Null
    /\ pausedTime = Null
    /\ testMode \in BOOLEAN
    /\ now = 1
    /\ lastFrameTime = 0
    /\ papiInput = NoDerivation
    /\ cameraInput = NoDerivation
    /\ lastCall = [op |-> "init", arg |-> 0, from |-> "stopped"]
    /\ landed = FALSE
    /\ frameAt = 0
    /\ activeMs = 0
    /\ pausedMs = 0

\* The viewer's onMounted: sceneManager = new SceneManager(canvas), whose constructor builds
\* the lighting; when the constructor threw, the error is logged, webGLError is set and
\* sceneManager stays null.
OnMounted(threw) ==
    /\ mounted = TRUE
    /\ webGLError = threw
    /\ disposed = FALSE
    /\ disposeCalls = 0
    /\ lightingManager = (IF threw THEN NoLights ELSE UpdateLighting(NoLights, InitCfg)).lm
    /\ timers = (IF threw THEN NoLights ELSE UpdateLighting(NoLights, InitCfg)).timers
    /\ meshes = (IF threw THEN NoLights ELSE UpdateLighting(NoLights, InitCfg)).meshes

\* The stores as constructed and the viewer as mounted, its SceneManager constructed.
Init == InitStores /\ OnMounted(FALSE)

\* The stores as constructed and the viewer as mounted, with or without WebGL.
InitViewer == InitStores /\ \E threw \in BOOLEAN : OnMounted(threw)

Play ==
    /\ SetAnim(PlayOf(Anim, Cfg, now))
    /\ SetLights(ViewerWatchers(Lights, Cfg, FALSE))
    /\ lastCall' = Call("play", 0)
    /\ landed' = FALSE
    /\ SetSession(~isPlaying, activeMs, pausedMs)
    /\ UNCHANGED <<configVars, testMode, sceneVars, viewerVars, derivedVars>>

Pause ==
    /\ SetAnim(PauseOf(Anim, now))
    /\ SetLights(ViewerWatchers(Lights, Cfg, FALSE))
    /\ lastCall' = Call("pause", 0)
    /\ UNCHANGED <<configVars, testMode, sceneVars, viewerVars, derivedVars, landed, sessionVars>>

Stop ==
    /\ SetAnim(StopOf(Anim))
    /\ SetLights(ViewerWatchers(Lights, Cfg, FALSE))
    /\ lastCall' = Call("stop", 0)
    /\ SetSession(FALSE, activeMs, pausedMs)
    /\ UNCHANGED <<configVars, testMode, sceneVars, viewerVars, derivedVars, landed>>

Reset ==
    /\ SetAnim(ResetOf(Anim, Cfg))
    /\ SetLights(ViewerWatchers(Lights, Cfg, FALSE))
    /\ lastCall' = Call("reset", 0)
    /\ landed' = FALSE
    /\ SetSession(FALSE, activeMs, pausedMs)
    /\ UNCHANGED <<configVars, testMode, sceneVars, viewerVars, derivedVars>>

\* updatePosition(deltaTime), called directly.
UpdatePosition(deltaTime) ==
    /\ SetAnim(UpdatePositionOf(Anim, Cfg, deltaTime))
    /\ SetLights(ViewerWatchers(Lights, Cfg, FALSE))
    /\ lastCall' = Call("updatePosition", deltaTime)
    /\ landed' = IF isPlaying /\ ~isPaused /\ ~isPlaying' THEN TRUE ELSE landed
    /\ SetSession(FALSE, activeMs, pausedMs)
    /\ UNCHANGED <<configVars, testMode, sceneVars, viewerVars, derivedVars>>

SetDistance(distance) ==
    /\ SetAnim(SetDistanceOf(Anim, Cfg, distance))
    /\ SetLights(ViewerWatchers(Lights, Cfg, FALSE))
    /\ lastCall' = Call("setDistance", distance)
    /\ SetSession(FALSE, activeMs, pausedMs)
    /\ UNCHANGED <<configVars, testMode, sceneVars, viewerVars, derivedVars, landed>>

\* Watchers that run on every call of a setter, whether or not the watched value changed.
AfterWatchersAlways(a, c, t) ==
    WatchSettings(WatchStartingDistance(a, StartingDistanceOf(c)), c, t)

\* The store's state after the watchers that a change of configuration to c triggers.
AfterWatchers(a, c, t) ==
    LET a1 == IF StartingDistanceOf(c) # StartingDistanceOf(Cfg)
              THEN WatchStartingDistance(a, StartingDistanceOf(c))
              ELSE a
    IN IF SettingsOf(c) # SettingsOf(Cfg) THEN WatchSettings(a1, c, t) ELSE a1

\* The header's settings watcher runs reset(); play() on a change made while playing and not paused.
Restarts(c) == SettingsOf(c) # SettingsOf(Cfg) /\ isPlaying /\ ~isPaused

\* A setter of the approach store, followed by the watchers it triggers.
Configure(c, op) ==
    /\ SetCfg(c)
    /\ SetAnim(AfterWatchers(Anim, c, now))
    /\ SetLights(ViewerWatchers(Lights, c, SettingsOf(c) # SettingsOf(Cfg)))
    /\ lastCall' = Call(op, 0)
    /\ landed' = IF Restarts(c) THEN FALSE ELSE landed
    /\ SetSession(Restarts(c), activeMs, pausedMs)
    /\ UNCHANGED <<testMode, sceneVars, viewerVars, derivedVars>>

SelectMinimum(minimumId) == Configure(SelectMinimumOf(Cfg, minimumId), "selectMinimum")

SetCustomCeiling(ceiling) == Configure(SetCustomCeilingOf(Cfg, ceiling), "setCustomCeiling")

SetCustomVisibility(visibility) ==
    Configure(SetCustomVisibilityOf(Cfg, visibility), "setCustomVisibility")

SetVisibilityUnit(unit) == Configure(SetVisibilityUnitOf(Cfg, unit), "setVisibilityUnit")

SetLightingType(type) == Configure(SetLightingTypeOf(Cfg, type), "setLightingType")

SetApproachSpeed(speed) == Configure(SetApproachSpeedOf(Cfg, speed), "setApproachSpeed")

SetShowREIL(show) == Configure(SetShowREILOf(Cfg, show), "setShowREIL")

SetShowPAPI(show) == Configure(SetShowPAPIOf(Cfg, show), "setShowPAPI")

SetterOps == {"selectMinimum", "setCustomCeiling", "setCustomVisibility", "setVisibilityUnit",
              "setLightingType", "setApproachSpeed", "setShowREIL", "setShowPAPI"}

----------------------------------------------------------------------------
(* The browser's intervals *)

\* The rabbit interval fires.
RabbitTick ==
    \E t \in timers :
        /\ t.kind = "rabbit"
        /\ SetLights(RabbitTickOf(Lights, t))
        /\ lastCall' = Call("rabbitTick", t.currentIndex)
        /\ UNCHANGED <<configVars, animVars, testMode, sceneVars, viewerVars, derivedVars,
                       landed, sessionVars>>

\* The REIL interval fires.
ReilTick ==
    \E t \in timers :
        /\ t.kind = "reil"
        /\ SetLights(ReilTickOf(Lights, t))
        /\ lastCall' = Call("reilTick", 0)
        /\ UNCHANGED <<configVars, animVars, testMode, sceneVars, viewerVars, derivedVars,
                       landed, sessionVars>>

\* updatePAPILights(currentAltitude, currentDistanceNm) of the LightingManager, called with
\* an altitude and a distance.
PapiLightsUpdate(altitude, distance) ==
    /\ ~disposed
    /\ ~webGLError
    /\ SetLights(UpdatePAPILights(Lights, altitude, distance))
    /\ papiInput' = [altitude |-> altitude, distance |-> distance]
    /\ lastCall' = Call("updatePAPILights", 0)
    /\ UNCHANGED <<configVars, animVars, testMode, sceneVars, viewerVars, cameraInput, landed,
                   sessionVars>>

----------------------------------------------------------------------------
(* src/scene/SceneManager.ts: the render loop and the disposal *)

\* Time passes.
Advance ==
    /\ now < MaxNow
    /\ now' = now + 1
    /\ UNCHANGED <<configVars, animVars, testMode, lastFrameTime, viewerVars, lightVars,
                   derivedVars, lastCall, landed, frameAt, sessionVars>>

\* lastFrameTime refreshed only by the frames that are not paused.
LastFrameTimeHeldWhilePaused(currentTime) == IF isPaused THEN lastFrameTime ELSE currentTime

\* this.lastFrameTime = currentTime
NextLastFrameTime(currentTime) == currentTime

\* update(), once per rendered frame, followed by the watchers it triggers. The first frame
\* only records its time.
Update ==
    LET currentTime == now
        deltaTime == currentTime - lastFrameTime
        active == isPlaying /\ ~isPaused
        elapsed == IF frameAt = 0 THEN 0 ELSE now - frameAt
        after == IF lastFrameTime # 0 /\ active
                 THEN UpdatePositionOf(Anim, Cfg, deltaTime)
                 ELSE Anim
        read == FrameDerivationState(Anim, after)
        derivation == [altitude |-> CurrentAltitudeOf(Cfg, read.currentDistanceNm),
                       distance |-> read.currentDistanceNm]
    IN /\ ~disposed
       /\ ~webGLError
       /\ lastFrameTime' = NextLastFrameTime(currentTime)
       /\ SetAnim(after)
       /\ IF lastFrameTime = 0
          THEN /\ UNCHANGED derivedVars
               /\ SetLights(Lights)
          ELSE /\ cameraInput' = ResetCameraPosition(after, Cfg, derivation)
               /\ papiInput' = derivation
               /\ SetLights(ViewerWatchers(
                      UpdatePAPILights(Lights, derivation.altitude, derivation.distance),
                      Cfg, FALSE))
       /\ lastCall' = Call("update", 0)
       /\ landed' = IF active /\ ~isPlaying' THEN TRUE ELSE landed
       /\ SetSession(FALSE,
                     IF active THEN activeMs + elapsed ELSE activeMs,
                     IF isPaused THEN pausedMs + elapsed ELSE pausedMs)
       /\ frameAt' = now
       /\ UNCHANGED <<configVars, testMode, now, viewerVars>>

\* if (sceneManager.value) that is true whatever the ref holds.
DisposesOnUnmountAlways(error) == TRUE

\* if (sceneManager.value): the ref holds a SceneManager unless its construction threw.
DisposesOnUnmount(error) == ~error

\* The viewer's onUnmounted, which Vue runs once for a mounted component: dispose() of the
\* SceneManager, when there is one, disposes the LightingManager and the engine, which ends
\* the render loop; the viewer's watchers end with the component.
OnUnmounted ==
    /\ mounted
    /\ mounted' = FALSE
    /\ IF DisposesOnUnmount(webGLError)
       THEN /\ disposed' = TRUE
            /\ disposeCalls' = disposeCalls + 1
            /\ SetLights(ClearAllLights(Lights))
            /\ lastCall' = Call("dispose", Cardinality(timers))
       ELSE /\ UNCHANGED <<disposed, disposeCalls, lightVars>>
            /\ lastCall' = Call("unmount", 0)
    /\ UNCHANGED <<configVars, animVars, testMode, sceneVars, derivedVars, landed, sessionVars,
                   webGLError>>

----------------------------------------------------------------------------
(* Specifications *)

\* The two stores under any sequence of calls of their operations.
Next ==
    \/ Play
    \/ Pause
    \/ Stop
    \/ Reset
    \/ \E deltaTime \in DeltaInputs : UpdatePosition(deltaTime)
    \/ \E distance \in DistanceInputs : SetDistance(distance)
    \/ \E minimumId \in MinimumInputs : SelectMinimum(minimumId)
    \/ \E ceiling \in CeilingInputs : SetCustomCeiling(ceiling)
    \/ \E speed \in SpeedInputs : SetApproachSpeed(speed)

Spec == Init /\ [][Next]_vars

\* A play session driven by the render loop: the play, pause and resume of the header's
\* button interleaved with frames, under a clock.
NextFrames ==
    \/ Play
    \/ Pause
    \/ Advance
    \/ Update

SpecFrames == Init /\ [][NextFrames]_vars

\* The configuration alone: the setters of the approach store over the whole catalog, and
\* the scrub slider, on an animation that is never started.
NextConfig ==
    \/ \E minimumId \in CatalogInputs : SelectMinimum(minimumId)
    \/ \E ceiling \in CeilingInputs : SetCustomCeiling(ceiling)
    \/ \E visibility \in VisibilityInputs : SetCustomVisibility(visibility)
    \/ \E unit \in UnitInputs : SetVisibilityUnit(unit)
    \/ \E type \in TagInputs : SetLightingType(type)
    \/ \E distance \in DistanceInputs : SetDistance(distance)

SpecConfig == Init /\ [][NextConfig]_vars

\* The lighting alone: changes of the lighting configuration interleaved with the firing of
\* the two intervals, until the viewer is unmounted.
NextLights ==
    \/ \E type \in LightingInputs : SetLightingType(type)
    \/ \E show \in BOOLEAN : SetShowREIL(show)
    \/ RabbitTick
    \/ ReilTick
    \/ OnUnmounted

SpecLights == Init /\ [][NextLights]_vars

\* A play session with the lights: the header's play and pause button and the REIL switch,
\* interleaved with the updatePosition calls of the frames and with the firing of the two
\* intervals.
NextSession ==
    \/ Play
    \/ Pause
    \/ \E deltaTime \in DeltaInputs : UpdatePosition(deltaTime)
    \/ SetShowREIL(TRUE)
    \/ RabbitTick
    \/ ReilTick

SpecSession == Init /\ [][NextSession]_vars

\* The animation commands with the lights: every operation of the animation store
\* interleaved with the firing of the two intervals, the REIL switched on.
NextCommands ==
    \/ Play
    \/ Pause
    \/ Stop
    \/ Reset
    \/ \E deltaTime \in DeltaInputs : UpdatePosition(deltaTime)
    \/ \E distance \in DistanceInputs : SetDistance(distance)
    \/ SetShowREIL(TRUE)
    \/ RabbitTick
    \/ ReilTick

SpecCommands == Init /\ [][NextCommands]_vars

\* The starting point alone: the speed over its range and the ceiling by minimum and by
\* override, on an animation that is never started.
NextStart ==
    \/ \E speed \in SpeedRange : SetApproachSpeed(speed)
    \/ \E minimumId \in CatalogInputs : SelectMinimum(minimumId)
    \/ \E ceiling \in CeilingInputs : SetCustomCeiling(ceiling)

SpecStart == Init /\ [][NextStart]_vars

\* The layouts alone: every lighting type with the PAPI and REIL toggles, and the rabbit.
NextCatalog ==
    \/ \E type \in LightingInputs : SetLightingType(type)
    \/ \E show \in BOOLEAN : SetShowPAPI(show)
    \/ \E show \in BOOLEAN : SetShowREIL(show)
    \/ RabbitTick

SpecCatalog == Init /\ [][NextCatalog]_vars

\* The viewer's life: mounted with or without WebGL, the stores operated and the lighting
\* switched while it lives and after, the intervals, and the unmounting.
NextViewer ==
    \/ Play
    \/ Pause
    \/ \E deltaTime \in DeltaInputs : UpdatePosition(deltaTime)
    \/ \E distance \in DistanceInputs : SetDistance(distance)
    \/ \E type \in TagInputs : SetLightingType(type)
    \/ \E show \in BOOLEAN : SetShowREIL(show)
    \/ RabbitTick
    \/ ReilTick
    \/ OnUnmounted

SpecViewer == InitViewer /\ [][NextViewer]_vars

\* A frame of the render loop with a positive deltaTime: its updatePosition call.
Frame == \E deltaTime \in FrameDeltas : UpdatePosition(deltaTime)

\* What such a frame does to the animation store while it is playing and not paused.
FrameAdvance ==
    /\ isPlaying
    /\ ~isPaused
    /\ \E deltaTime \in FrameDeltas : SetAnim(UpdatePositionOf(Anim, Cfg, deltaTime))

\* A flight left to the render loop: the minimum and the speed are chosen and play() is
\* called while the animation is stopped; once it plays there are only frames, which
\* the engine's render loop keeps delivering: a playing animation is not left without a
\* frame that moves it.
NextLanding ==
    \/ ~isPlaying /\ \E minimumId \in CatalogInputs : SelectMinimum(minimumId)
    \/ ~isPlaying /\ \E speed \in LandingSpeeds : SetApproachSpeed(speed)
    \/ ~isPlaying /\ Play
    \/ Frame

SpecLanding == Init /\ [][NextLanding]_vars /\ WF_animVars(FrameAdvance)

\* The PAPI alone: evaluations over altitudes and distances.
NextPapi ==
    \E altitude \in PapiAltitudeInputs, distance \in PapiDistanceInputs :
        PapiLightsUpdate(altitude, distance)

SpecPapi == Init /\ [][NextPapi]_vars

----------------------------------------------------------------------------
(* Properties *)

Active == isPlaying /\ ~isPaused

Ceiling100 == EffectiveCeiling * 100

\* C1, as claimed: a step takes hasBrokenOut from true to false only when it is reset() or
\* play() called while not playing; every updatePosition, pause, resume, stop, setDistance
\* and configuration change leaves a set latch set.
LatchClearedOnlyByResetOrPlay ==
    [][(hasBrokenOut /\ ~hasBrokenOut') =>
           \/ lastCall'.op = "reset"
           \/ lastCall'.op = "play" /\ ~isPlaying]_vars

\* C1, amended: a step takes hasBrokenOut from true to false only when it runs reset():
\* reset() itself, play() called while not playing, or a configuration change made while
\* playing and not paused, on which the settings watcher of the header calls reset(); play().
\* No updatePosition, pause, resume, stop or setDistance, and no configuration change made
\* while stopped or paused, clears it.
LatchClearedOnlyByReset ==
    [][(hasBrokenOut /\ ~hasBrokenOut') =>
           \/ lastCall'.op = "reset"
           \/ lastCall'.op = "play" /\ ~isPlaying
           \/ lastCall'.op \in SetterOps /\ Active]_vars

\* The latch is still set after a scrub took the altitude back above the ceiling.
LatchHeldAboveCeiling ==
    /\ hasBrokenOut
    /\ lastCall.op = "setDistance"
    /\ CurrentAltitude > Ceiling100

\* C2: updatePosition never leaves the distance below the landing floor, and it stops the
\* animation in exactly the calls that reach the floor (playing, not paused, and the advanced
\* distance at or below the floor), leaving the distance equal to the floor.
UpdatePositionFloor ==
    [][lastCall'.op = "updatePosition" =>
           LET reached == Active /\ currentDistanceNm - DistanceChange(Cfg, lastCall'.arg)
                                        <= MinDistanceToThreshold
           IN /\ currentDistanceNm' >= MinDistanceToThreshold
              /\ reached => ~isPlaying' /\ currentDistanceNm' = MinDistanceToThreshold
              /\ ~reached => isPlaying' = isPlaying /\ isPaused' = isPaused]_vars

\* An updatePosition with a positive deltaTime has landed the playing animation.
LandedByUpdatePosition ==
    /\ lastCall = [op |-> "updatePosition", arg |-> 2, from |-> "playing"]
    /\ ~isPlaying
    /\ currentDistanceNm = MinDistanceToThreshold

\* C3: updatePosition changes nothing of the animation store unless the animation is playing
\* and not paused.
UpdatePositionNoOp ==
    [][(lastCall'.op = "updatePosition" /\ ~Active) => UNCHANGED animVars]_vars

\* updatePosition was called with a positive deltaTime on a paused animation.
UpdatePositionWhenPaused ==
    /\ lastCall = [op |-> "updatePosition", arg |-> 2, from |-> "paused"]
    /\ isPaused
    /\ currentDistanceNm < StartingDistanceNm

\* C4: play() called while not playing resets and starts: right after it the distance is
\* startingDistanceNm, hasBrokenOut is false, isPlaying is true and isPaused is false.
PlayResetsAndStarts ==
    (lastCall.op = "play" /\ lastCall.from = "stopped") =>
        /\ currentDistanceNm = StartingDistanceNm
        /\ ~hasBrokenOut
        /\ isPlaying
        /\ ~isPaused

\* play() has started the animation from a stopped state.
PlayedFromStopped ==
    /\ lastCall.op = "play"
    /\ lastCall.from = "stopped"
    /\ isPlaying
    /\ currentDistanceNm = StartingDistanceNm

\* C5: in a play session made of play, pause, resume and frames, the distance flown is the
\* speed times the frame time spent playing and not paused, whatever time the session spent
\* paused and however the pauses split it.
PauseResumeRoundTrip ==
    isPlaying =>
        currentDistanceNm = StartingDistanceNm - SpeedNmPerMs(Cfg) * SpeedMultiplier * activeMs

\* A frame has advanced a session that flew, was paused over frames, and was resumed.
ResumedAfterPausedFrames ==
    /\ lastCall.op = "update"
    /\ Active
    /\ activeMs >= 2
    /\ pausedMs >= 2
    /\ currentDistanceNm < StartingDistanceNm

\* C6, as claimed: no step taken while isPlaying is true, and leaving it true, increases
\* currentDistanceNm.
NonIncreasingWhilePlaying ==
    [][(isPlaying /\ isPlaying') => currentDistanceNm' <= currentDistanceNm]_vars

\* C6, amended: updatePosition, pause, resume and stop never increase currentDistanceNm; while
\* isPlaying is true the distance increases only by setDistance (which leaves a paused
\* animation playing), by reset(), or by the settings watcher restarting the session after a
\* configuration change.
IncreasedOnlyByScrubOrReset ==
    [][(isPlaying /\ currentDistanceNm' > currentDistanceNm) =>
           \/ lastCall'.op = "setDistance"
           \/ lastCall'.op = "reset"
           \/ lastCall'.op \in SetterOps /\ Active]_vars

\* updatePosition has decreased the distance of a playing animation that keeps playing.
AdvancedWhilePlaying ==
    /\ lastCall = [op |-> "updatePosition", arg |-> 2, from |-> "playing"]
    /\ isPlaying
    /\ currentDistanceNm < StartingDistanceNm

\* C7: after setDistance(d) the animation is not playing unpaused, and the distance is d
\* clamped into [landing floor, startingDistanceNm].
SetDistanceClamps ==
    lastCall.op = "setDistance" =>
        /\ ~Active
        /\ currentDistanceNm =
               IF lastCall.arg < MinDistanceToThreshold THEN MinDistanceToThreshold
               ELSE IF lastCall.arg > StartingDistanceNm THEN StartingDistanceNm
               ELSE lastCall.arg

\* setDistance has stopped a playing animation at a distance between the floor and the start.
ScrubbedWhilePlaying ==
    /\ lastCall = [op |-> "setDistance", arg |-> 5000, from |-> "playing"]
    /\ ~isPlaying
    /\ currentDistanceNm = 5000

\* C8, as claimed: from the landing until the next reset(), isPlaying is false and the
\* distance is the landing floor.
LandedRetainsFloor ==
    landed => ~isPlaying /\ currentDistanceNm = MinDistanceToThreshold

\* C8, amended: after the landing isPlaying stays false until play(), and the distance stays
\* at the landing floor until reset(), play(), setDistance, or a configuration change that
\* changes startingDistanceNm (the store's watcher then sets the distance to the new start).
LandedRetainsFloorUntilMoved ==
    [][(landed /\ currentDistanceNm = MinDistanceToThreshold) =>
           /\ isPlaying' => lastCall'.op = "play"
           /\ currentDistanceNm' # currentDistanceNm =>
                  \/ lastCall'.op \in {"reset", "play", "setDistance"}
                  \/ lastCall'.op \in SetterOps /\ StartingDistanceNm' # StartingDistanceNm]_vars

\* A setter that leaves startingDistanceNm as it was has run on the landed animation.
LandedKeptThroughSetter ==
    /\ landed
    /\ lastCall.op = "setApproachSpeed"
    /\ lastCall.from = "stopped"
    /\ currentDistanceNm = MinDistanceToThreshold
    /\ hasBrokenOut

\* C9, as claimed: a stopped state that is not Landed has the distance at startingDistanceNm.
StoppedIsIdle ==
    (~isPlaying /\ ~landed) => currentDistanceNm = StartingDistanceNm

\* C9, amended: reset() leads to Idle from any state; stop() clears the flags and the
\* timestamps from any state and leaves the distance and the breakout flag as they were.
ResetIdlesStopKeepsDistance ==
    [][/\ lastCall'.op = "reset" =>
              /\ ~isPlaying' /\ ~isPaused'
              /\ currentDistanceNm' = StartingDistanceNm'
              /\ ~hasBrokenOut'
              /\ animationStartTime' = Null /\ pausedTime' = Null
       /\ lastCall'.op = "stop" =>
              /\ ~isPlaying' /\ ~isPaused'
              /\ currentDistanceNm' = currentDistanceNm
              /\ hasBrokenOut' = hasBrokenOut
              /\ animationStartTime' = Null /\ pausedTime' = Null]_vars

\* stop() has stopped a paused animation short of the start.
StoppedFromPausedMidApproach ==
    /\ lastCall.op = "stop"
    /\ lastCall.from = "paused"
    /\ ~isPlaying
    /\ MinDistanceToThreshold < currentDistanceNm
    /\ currentDistanceNm < StartingDistanceNm

\* C10, as claimed: in every state with the altitude at or below the ceiling, hasBrokenOut
\* is true.
BrokenOutWheneverBelowCeiling ==
    CurrentAltitude <= Ceiling100 => hasBrokenOut

\* C10, amended: after an updatePosition called while playing and not paused, the altitude at
\* or below the ceiling implies hasBrokenOut; setDistance and the setters do not set the flag.
BrokenOutAfterUpdatePosition ==
    (lastCall.op = "updatePosition" /\ lastCall.from = "playing" /\ CurrentAltitude <= Ceiling100)
        => hasBrokenOut

\* updatePosition has taken the playing animation to the ceiling, short of landing.
BrokeOutByUpdatePosition ==
    /\ lastCall.op = "updatePosition"
    /\ lastCall.from = "playing"
    /\ isPlaying
    /\ CurrentAltitude <= Ceiling100
    /\ hasBrokenOut

\* The altitude of the 3-degree glidepath at the current distance, in hundredths of a foot.
GlidepathAltitude ==
    CalculateGlidepathAltitude(Max(0, currentDistanceNm - TouchdownZoneOffsetNm))

\* C11: under the non-precision and circling minima the reported altitude is never below the
\* effective ceiling: it is the ceiling wherever the 3-degree glidepath is below the ceiling,
\* down to the landing floor, and the glidepath altitude elsewhere.
LevelOffAtCeiling ==
    selectedMinimumId \in {"non-precision", "circling"} =>
        /\ CurrentAltitude >= Ceiling100
        /\ GlidepathAltitude < Ceiling100 => CurrentAltitude = Ceiling100
        /\ GlidepathAltitude >= Ceiling100 => CurrentAltitude = GlidepathAltitude

\* Under the circling minimum the aircraft is at the landing floor, levelled off at the ceiling.
LevelledOffAtLandingFloor ==
    /\ selectedMinimumId = "circling"
    /\ currentDistanceNm = MinDistanceToThreshold
    /\ GlidepathAltitude < Ceiling100
    /\ CurrentAltitude = Ceiling100

\* C12: for every minimum of the catalog and after any sequence of setter calls, the effective
\* ceiling and visibility are the selected minimum's stored values while no override is set,
\* and the override, whatever the minimum, while one is set.
OverrideOrMinimum ==
    MinimumCeiling(selectedMinimumId) # Null =>
        /\ customCeiling = Null => EffectiveCeiling = MinimumCeiling(selectedMinimumId)
        /\ customCeiling # Null => EffectiveCeiling = customCeiling
        /\ customVisibility = Null => EffectiveVisibility = MinimumVisibility(selectedMinimumId)
        /\ customVisibility # Null => EffectiveVisibility = customVisibility

\* Both overrides are set over a minimum whose stored values differ from them.
OverridesSetOverCircling ==
    /\ selectedMinimumId = "circling"
    /\ lastCall.op = "setCustomVisibility"
    /\ customCeiling = 300
    /\ customVisibility = 10
    /\ EffectiveCeiling = 300
    /\ EffectiveVisibility = 10

\* C13: with a minimum id that the catalog does not have, the effective ceiling, visibility
\* and unit without overrides are those of the default minimum (ILS CAT I); with a lighting tag
\* that is none of the variants there is, as for 'None', no approach lighting system and no
\* rabbit interval.
UnknownLookupFallsBack ==
    /\ MinimumCeiling(selectedMinimumId) = Null =>
           /\ customCeiling = Null => EffectiveCeiling = MinimumCeiling("cat-i")
           /\ customVisibility = Null => EffectiveVisibility = MinimumVisibility("cat-i")
           /\ customVisibilityUnit = NoUnit => VisibilityUnit = MinimumVisibilityUnit("cat-i")
    /\ lightingType \notin FactoryTypes =>
           /\ lightingManager.approachLightingSystem = NoApproachSystem
           /\ lightingManager.rabbitInterval = Null
           /\ \A t \in timers : t.kind # "rabbit"

\* An unknown minimum id and an unknown lighting tag are selected, with no override.
UnknownIdAndTagSelected ==
    /\ selectedMinimumId = "cat-iv"
    /\ lightingType = "HIRL"
    /\ customCeiling = Null
    /\ customVisibility = Null
    /\ customVisibilityUnit = NoUnit
    /\ ~disposed

\* The running intervals of one kind.
TimersOf(kind) == {t \in timers : t.kind = kind}

\* C14: after any sequence of lighting-configuration changes at most one rabbit interval and at
\* most one REIL interval is running, each is the one whose handle its owner holds and works
\* on the owner's current system, and no two intervals target the same fixture set.
AtMostOneTimerEach ==
    /\ Cardinality(TimersOf("rabbit")) <= 1
    /\ Cardinality(TimersOf("reil")) <= 1
    /\ \A t \in TimersOf("rabbit") :
           /\ t.handle = lightingManager.rabbitInterval
           /\ t.target.inst = lightingManager.approachLightingSystem.inst
    /\ \A t \in TimersOf("reil") :
           /\ t.handle = lightingManager.reilSystem.reilFlashInterval
           /\ t.target.inst = lightingManager.reilSystem.inst
    /\ \A t1, t2 \in timers : t1.target = t2.target => t1 = t2

\* The REIL was switched on while the rabbit of a system with flashers was running: the
\* rebuild restarted the rabbit and started the REIL interval.
BothTimersRestarted ==
    /\ lastCall.op = "setShowREIL"
    /\ showREIL
    /\ HasSequencedFlashers(lightingType)
    /\ TimersOf("rabbit") # {}
    /\ TimersOf("reil") # {}

\* C15: once the viewer is disposed no interval is left running, so that neither the rabbit
\* callback nor the REIL callback runs again, whatever the lighting was.
DisposeCancelsAllTimers ==
    disposed =>
        /\ timers = {}
        /\ lightingManager.rabbitInterval = Null
        /\ lightingManager.reilSystem = NoReilSystem
        /\ lastCall.op \notin {"rabbitTick", "reilTick"}

\* dispose() was called while both intervals were running.
DisposedWithBothTimersRunning ==
    /\ disposed
    /\ lastCall.op = "dispose"
    /\ lastCall.arg = 2

\* The fixture groups of the systems the LightingManager has registered.
RegisteredMeshes ==
    {Mesh("approach", lightingManager.approachLightingSystem.inst),
     Mesh("papi", lightingManager.papiSystem.inst),
     Mesh("reil", lightingManager.reilSystem.inst),
     Mesh("rcls", lightingManager.rclsSystem),
     Mesh("edge", lightingManager.runwayEdgeLighting)} \ {Mesh(kind, 0) : kind \in MeshKinds}

\* C20: after any sequence of lighting-configuration changes the live fixtures are exactly
\* those of the registered systems, the registered systems are exactly those of the latest
\* configuration, the rabbit runs on the flasher list of the latest system, and every interval
\* works on live fixtures; after disposal no fixture is left.
FixturesOfLatestConfiguration ==
    /\ meshes = RegisteredMeshes
    /\ \A t \in timers : t.target \in meshes
    /\ ~disposed =>
           /\ lightingManager.approachLightingSystem.type = FactoryCreate(lightingType)
           /\ (lightingManager.approachLightingSystem.inst # 0) = (lightingType \in FactoryTypes)
           /\ (lightingManager.reilSystem.inst # 0) = showREIL
           /\ (lightingManager.papiSystem.inst # 0) = showPAPI
           /\ (lightingManager.rclsSystem # 0) = showRCLS
           /\ (lightingManager.runwayEdgeLighting # 0) = showEdgeLights
           /\ lightingManager.approachLightingSystem.visible
                  \subseteq 0..(FlasherCount(lightingType) - 1)
           /\ \A t \in TimersOf("rabbit") : t.flashers = FlasherCount(lightingType)
           /\ (TimersOf("rabbit") # {}) = (FlasherCount(FactoryCreate(lightingType)) > 0)
    /\ disposed => meshes = {}

\* The lighting was changed to ODALS: the fixtures are rebuilt and the rabbit starts at the
\* last of the seven flashers of ODALS.
RebuiltAsODALS ==
    /\ lastCall.op = "setLightingType"
    /\ lightingType = "ODALS"
    /\ ~disposed
    /\ \E t \in TimersOf("rabbit") : t.flashers = 7 /\ t.currentIndex = 6
    /\ Cardinality(meshes) >= 2

\* The station, in feet before the threshold, of the flasher at an index of the flasher list
\* of the current lighting type.
StationAt(index) == FlasherStations(lightingType)[index + 1]

\* The greatest station of the flasher list of the current lighting type.
FarEndStation ==
    CHOOSE s \in {StationAt(i) : i \in 0..(FlasherCount(lightingType) - 1)} :
        \A i \in 0..(FlasherCount(lightingType) - 1) : StationAt(i) <= s

SweepTakes500Ms ==
    \A t \in TimersOf("rabbit") : t.period * t.flashers = 500

\* C19: after every frame that derives them, the PAPI and the camera are derived from the
\* distance and the altitude the store holds at the end of that frame, that is, after the
\* frame's updatePosition; the camera of a stopped animation within 0.01 nm of the start is
\* placed at the starting distance.
DerivedFromSameFrame ==
    (lastCall.op = "update" /\ papiInput # NoDerivation) =>
        /\ papiInput = [altitude |-> CurrentAltitude, distance |-> currentDistanceNm]
        /\ cameraInput = ResetCameraPosition(Anim, Cfg, papiInput)

\* A frame of a playing animation has advanced the aircraft, and the PAPI and the camera are
\* derived from where it is now.
DerivedAfterAdvance ==
    /\ lastCall.op = "update"
    /\ lastCall.from = "playing"
    /\ activeMs > 0
    /\ currentDistanceNm < StartingDistanceNm
    /\ papiInput.distance = currentDistanceNm
    /\ cameraInput.altitude = CurrentAltitude

\* C16: while the animation is paused the intervals the configuration calls for are running,
\* pausing itself leaves the lighting and its intervals as they are, a frame's updatePosition
\* leaves currentDistanceNm as it is, and a tick of the rabbit or of the REIL interval acts on
\* the fixtures as it does while playing.
PauseStopsDistanceNotLights ==
    /\ [](isPlaying /\ isPaused =>
              /\ TimersOf("rabbit") # {}
              /\ showREIL => TimersOf("reil") # {})
    /\ [][/\ lastCall'.op = "pause" => UNCHANGED lightVars
          /\ (isPaused /\ lastCall'.op = "updatePosition") =>
                 currentDistanceNm' = currentDistanceNm
          /\ (isPaused /\ lastCall'.op = "rabbitTick") =>
                 \E t \in TimersOf("rabbit") :
                     /\ lightingManager'.approachLightingSystem.visible = {t.currentIndex}
                     /\ timers' = (timers \ {t}) \cup
                            {[t EXCEPT !.currentIndex = NextIndex(t.currentIndex, t.flashers)]}
          /\ (isPaused /\ lastCall'.op = "reilTick") =>
                 \E t \in TimersOf("reil") :
                     /\ lightingManager'.reilSystem.visible = t.visible
                     /\ timers' = (timers \ {t}) \cup {[t EXCEPT !.visible = ~t.visible]}
         ]_vars

\* Paused in mid-approach, the rabbit has lit a single flasher and the REIL interval has just
\* switched the REIL off.
LightsTickedWhilePaused ==
    /\ isPlaying
    /\ isPaused
    /\ currentDistanceNm < StartingDistanceNm
    /\ lastCall.op = "reilTick"
    /\ lastCall.from = "paused"
    /\ ~lightingManager.reilSystem.visible
    /\ Cardinality(lightingManager.approachLightingSystem.visible) = 1

\* C28: after any sequence of play, pause, stop, reset, updatePosition and setDistance (and
\* of configuration changes), isPaused implies isPlaying, pausedTime is set exactly when
\* isPaused, animationStartTime is set exactly when isPlaying, and a pause() outside
\* playing-and-not-paused changes nothing of the animation.
FlagsAndTimestampsConsistent ==
    /\ [](/\ isPaused => isPlaying
          /\ (pausedTime # Null) = isPaused
          /\ (animationStartTime # Null) = isPlaying)
    /\ [][(lastCall'.op = "pause" /\ ~(isPlaying /\ ~isPaused)) => UNCHANGED animVars]_vars

\* The slider was moved while paused: the animation stays paused, with both timestamps.
ScrubbedWhilePaused ==
    /\ lastCall.op = "setDistance"
    /\ isPlaying
    /\ isPaused
    /\ pausedTime # Null
    /\ animationStartTime # Null

\* C27: in every reachable state currentDistanceNm is between the landing floor and
\* startingDistanceNm, also after the ceiling, the minimum or the speed is changed while the
\* animation is playing or paused.
DistanceWithinFloorAndStart ==
    /\ MinDistanceToThreshold <= currentDistanceNm
    /\ currentDistanceNm <= StartingDistanceNm

\* The operations of the animation store, and the frame's call of updatePosition.
AnimationOps == {"play", "pause", "stop", "reset", "setDistance", "updatePosition"}

\* C30: no animation command and no frame tick touches the lighting: the intervals, the
\* rabbit's current index and the fixtures are as they were.
AnimationLeavesLightsAlone ==
    [][lastCall'.op \in AnimationOps => UNCHANGED lightVars]_vars

\* The distance flown in three seconds at the speed is more than the distance between the
\* ceiling and 50 ft above it on the glidepath.
TravelExceedsMargin(c) ==
    (c.approachSpeed * 50 + 3) \div 6 >
        DistanceForAltitude(EffectiveCeilingOf(c) + 50) - DistanceForAltitude(EffectiveCeilingOf(c))

\* C24, as claimed: a higher speed at the same ceiling, and a higher ceiling at the same
\* speed, give a starting distance farther out.
StartIncreasesWithSpeedAndCeiling ==
    [][/\ (approachSpeed' > approachSpeed /\ EffectiveCeiling' = EffectiveCeiling) =>
              StartingDistanceNm' > StartingDistanceNm
       /\ (EffectiveCeiling' > EffectiveCeiling /\ approachSpeed' = approachSpeed) =>
              StartingDistanceNm' > StartingDistanceNm]_vars

\* C24, amended: a higher ceiling at the same speed gives a starting distance farther out; a
\* higher speed at the same ceiling gives one that is no nearer, and farther out once the
\* three seconds of travel exceed the 50 ft margin.
StartNonDecreasingInSpeed ==
    [][/\ (approachSpeed' > approachSpeed /\ EffectiveCeiling' = EffectiveCeiling) =>
              /\ StartingDistanceNm' >= StartingDistanceNm
              /\ TravelExceedsMargin(Cfg') => StartingDistanceNm' > StartingDistanceNm
       /\ (EffectiveCeiling' > EffectiveCeiling /\ approachSpeed' = approachSpeed) =>
              StartingDistanceNm' > StartingDistanceNm]_vars

\* The speed was set to the top of the range, where the three seconds of travel decide the
\* starting distance.
StartDecidedByTravel ==
    /\ lastCall.op = "setApproachSpeed"
    /\ approachSpeed = 200
    /\ TravelExceedsMargin(Cfg)
    /\ StartingDistanceNm >
           DistanceForAltitude(EffectiveCeiling + 50) + TouchdownZoneOffsetNm

\* The glidepath angle of the last PAPI evaluation, in hundredths of a degree.
PapiAngle ==
    AngleDegrees((papiInput.altitude * 10000) \div PapiDistanceFt(papiInput.distance))

\* The last call evaluated the PAPI at a distance before the touchdown zone.
PapiEvaluated ==
    lastCall.op = "updatePAPILights" /\ PapiDistanceFt(papiInput.distance) > 0

\* C22: the PAPI has between 0 and 4 red lights, which are the first redCount of the four
\* slots in their order, and of two successive evaluations at the same distance the one at
\* the higher altitude has no more red lights.
PapiRedsFirstAndMonotonic ==
    /\ [](lightingManager.papiSystem.inst # 0 =>
              /\ lightingManager.papiSystem.redCount \in 0..4
              /\ \A i \in 1..4 :
                     (lightingManager.papiSystem.materials[i] = "red") =
                         (i <= lightingManager.papiSystem.redCount)
              /\ \A i \in 1..4 :
                     lightingManager.papiSystem.materials[i] \in {"red", "white"})
    /\ [][(/\ PapiEvaluated
           /\ PapiEvaluated'
           /\ papiInput'.distance = papiInput.distance
           /\ papiInput'.altitude >= papiInput.altitude) =>
              lightingManager'.papiSystem.redCount <= lightingManager.papiSystem.redCount]_vars

\* The PAPI was evaluated slightly high: one red light, in the first slot.
PapiOneRedFirst ==
    /\ PapiEvaluated
    /\ PapiAngle >= 325
    /\ PapiAngle < 350
    /\ lightingManager.papiSystem.materials = <<"red", "white", "white", "white">>

\* C23: an evaluation at exactly 2.5, 2.75, 3.0, 3.25 and 3.5 degrees leaves 4, 3, 2, 1 and 0
\* red lights.
PapiBoundaryAngles ==
    PapiEvaluated =>
        /\ PapiAngle = 250 => lightingManager.papiSystem.redCount = 4
        /\ PapiAngle = 275 => lightingManager.papiSystem.redCount = 3
        /\ PapiAngle = 300 => lightingManager.papiSystem.redCount = 2
        /\ PapiAngle = 325 => lightingManager.papiSystem.redCount = 1
        /\ PapiAngle = 350 => lightingManager.papiSystem.redCount = 0

----------------------------------------------------------------------------
(* The layouts *)

\* The fixtures of the approach lighting system in the scene.
ApproachLights == lightingManager.approachLightingSystem.approachLights

SequencedFlashers == lightingManager.approachLightingSystem.sequencedFlashers

\* The steady (not strobe) fixtures of the list at the station, ft before the threshold.
SteadyAt(lights, ft) ==
    {k \in DOMAIN lights : lights[k].z = -ft /\ lights[k].material # "strobe"}

\* C26: the ALSF-I system in the scene has one group of steady fixtures at the 1000 ft
\* station, 21 white lights at 21 different positions, of which 5 form the centre barrette and
\* 8 lie on each side of it; it has a bar of green lights at the threshold; and its sequenced
\* flashers are 21 strobes on the centerline at every 100 ft from 1000 ft to 3000 ft.
ALSFILayoutAsPublished ==
    (~disposed /\ lightingType = "ALSF-I") =>
        LET crossbar == SteadyAt(ApproachLights, 1000)
            green == {k \in DOMAIN ApproachLights : ApproachLights[k].material = "green"}
        IN /\ Cardinality(crossbar) = 21
           /\ Cardinality({ApproachLights[k].x : k \in crossbar}) = 21
           /\ \A k \in crossbar : ApproachLights[k].material = "white"
           /\ Cardinality({k \in crossbar : ApproachLights[k].x \in -162..162}) = 5
           /\ Cardinality({k \in crossbar : ApproachLights[k].x < -162}) = 8
           /\ Cardinality({k \in crossbar : ApproachLights[k].x > 162}) = 8
           /\ green # {}
           /\ \A k \in green : ApproachLights[k].z = 0
           /\ \A k \in DOMAIN ApproachLights :
                  ApproachLights[k].z = 0 => ApproachLights[k].material = "green"
           /\ Len(SequencedFlashers) = 21
           /\ \A k \in 1..Len(SequencedFlashers) :
                  SequencedFlashers[k] = Light(0, 3, -(1000 + 100 * (k - 1)), "strobe")
           /\ \A k \in DOMAIN ApproachLights :
                  ApproachLights[k].material = "strobe" =>
                      \E j \in DOMAIN SequencedFlashers : SequencedFlashers[j] = ApproachLights[k]

\* The lighting was changed to ALSF-I and its fixtures are in the scene.
BuiltAsALSFI ==
    /\ lastCall.op = "setLightingType"
    /\ lightingType = "ALSF-I"
    /\ lightingManager.approachLightingSystem.inst # 0
    /\ Len(ApproachLights) > 21
    /\ ~disposed

----------------------------------------------------------------------------
(* The viewer's teardown *)

\* C25: dispose() of the SceneManager has been called once when the viewer was mounted with
\* a SceneManager and has been unmounted, and not at all otherwise; it is called only by the
\* unmounting. When the construction threw, the viewer is mounted all the same, with its
\* error message and without a scene, and its unmounting disposes nothing.
TeardownDisposesExactlyOnce ==
    /\ [](disposeCalls = (IF ~mounted /\ ~webGLError THEN 1 ELSE 0))
    /\ [](disposed = (disposeCalls > 0))
    /\ [](webGLError => meshes = {} /\ timers = {} /\ lightingManager = NoLights.lm)
    /\ [][disposeCalls' # disposeCalls =>
              mounted /\ ~mounted' /\ lastCall'.op = "dispose"]_vars

\* The construction of the SceneManager threw, the lighting was switched with no scene to
\* rebuild, and the viewer has been unmounted.
UnmountedAfterFailedConstruction ==
    /\ webGLError
    /\ ~mounted
    /\ lastCall.op = "unmount"
    /\ lightingType = "None"
    /\ disposeCalls = 0

----------------------------------------------------------------------------
(* The flight to the landing *)

\* C29: an animation that is playing and not paused, with frames of positive deltaTime
\* arriving and no command or configuration change, eventually lands: isPlaying is false and
\* currentDistanceNm is the landing floor; for every minimum of the catalog and for speeds
\* at both ends of the allowed range.
PlayingLeadsToLanded ==
    (isPlaying /\ ~isPaused) ~>
        (~isPlaying /\ landed /\ currentDistanceNm = MinDistanceToThreshold)

\* A circling approach at the lowest speed has been flown to the landing by the frames.
LandedCirclingAtLowestSpeed ==
    /\ selectedMinimumId = "circling"
    /\ approachSpeed = 50
    /\ lastCall.op = "updatePosition"
    /\ landed
    /\ ~isPlaying
    /\ currentDistanceNm = MinDistanceToThreshold

====
